---- MODULE Spec2Model ----
(***************************************************************************)
(* Verification model of the EV3SP host library (hank-nguyen/EV3SP).       *)
(*                                                                         *)
(*   Part I   EV3MicroPython.connect: transport auto-selection, READY      *)
(*            handshake, daemon bootstrap and retry                        *)
(*            (platforms/ev3/ev3_micropython.py).                          *)
(*   Part II  SpikeInterface request/response session and the program      *)
(*            uploads of SpikeInterface / SpikeFastInterface               *)
(*            (platforms/spike_prime/sp_interface.py, sp_fast.py).         *)
(*   Part III SpikeFastInterface.run_interactive_sequence                  *)
(*            (platforms/spike_prime/sp_fast.py).                          *)
(*   Part IV  EV3MicroPython.send / disconnect and repeated connect calls  *)
(*            on one link (platforms/ev3/ev3_micropython.py).              *)
(*   Part V   Conductor: connect_all, send, disconnect_all around one      *)
(*            `async with` block, and EV3DaemonSession.send                *)
(*            (projects/orchestra/conductor.py,                            *)
(*            platforms/ev3/ev3_interface.py).                             *)
(*   Part VI  SpikeInterface.connect / disconnect / set_console_callback   *)
(*            and the notification handler _on_data                        *)
(*            (platforms/spike_prime/sp_interface.py).                     *)
(*   Part VII The bytes of an upload: chunks, running CRC and the packets  *)
(*            a frame is written in                                        *)
(*            (platforms/spike_prime/sp_interface.py, sp_fast.py).         *)
(*   Part VIII SpikeFastInterface.connect(preload) and fast_action         *)
(*            (platforms/spike_prime/sp_fast.py).                          *)
(*                                                                         *)
(* Each specification runs the actions of its part over the shared         *)
(* variables; the variables it does not use stay at their initial values.  *)
(***************************************************************************)
EXTENDS Integers, Sequences, FiniteSets, TLC

VARIABLES
    \* ---- Part I: EV3MicroPython ----
    transport_type,     \* constructor argument: "auto" (None) or a forced transport
    auto_start_daemon,  \* EV3Config.auto_start_daemon
    serial_available,   \* SERIAL_AVAILABLE (pyserial importable)
    bt_creatable,       \* BLUETOOTH_AVAILABLE and config.bt_address set
    transport,          \* self._transport: "none" or the transport type it holds
    connected,          \* self._connected
    transportOpen,      \* the object in self._transport has an open connection
    pc,                 \* position of the connect() coroutine
    idx,                \* index into the transport list of the running _try_connect
    attempt,            \* loop variable of the retry loop, -1 during the first attempt
    tried,              \* per _try_connect: <<[t, result]>> of the transports attempted
    sleeps,             \* the asyncio.sleep(wait_time) calls of the retry loop, in order
    bootstraps,         \* number of _start_daemon_via_ssh invocations
    bootstrapOk,        \* result of the bootstrap, "none" before it ran
    attempts,           \* number of _try_connect calls started
    orphans,            \* transports still open that self._transport no longer refers to
    \* ---- Part II: Spike session (SpikeInterface / SpikeFastInterface) ----
    max_chunk_size,     \* self._info_response.max_chunk_size
    pending_response,   \* self._pending_response: [id, fut]
    futState,           \* state of the asyncio.Future each task created last
    futResult,          \* the message that future was resolved with
    tpc,                \* position of each task (coroutine) using the session
    op,                 \* the operation each task is running
    script,             \* the protocol steps the operation still has to perform
    awaiting,           \* the future a task's wait_for is suspended on
    hubq,               \* messages written to the hub and not yet answered
    oplog,              \* per task: what its current operation sent and got back
    ops,                \* operations each task has started
    timedOut,           \* a _send_request raised TimeoutError and none was issued since
    hubProg,            \* completion markers the program running on the hub will still print
    \* ---- Part III: run_interactive_sequence ----
    console_callback,   \* self._console_callback: "None" or "on_console"
    signal_queue,       \* the asyncio.Queue of the running call
    completed,          \* local `completed`
    loop_i,             \* local `i` of the wait loop
    sigTimedOut,        \* the wait loop of the running call hit its 5 s timeout
    received,           \* marker indices on_console queued during the running call
    cbLog,              \* arguments of the on_action_done invocations of the running call
    cbDone,             \* on_action_done invocations that ran to completion
    \* ---- Part IV: using the EV3 link (EV3MicroPython.send / disconnect) ----
    lpc,                \* position of the send() coroutine: "idle" or "recv"
    cur,                \* the command the running send() wrote
    linkIn,             \* commands the daemon got over the link and has not answered
    linkBuf,            \* reply lines that reached the transport and were not read
    daemonUp,           \* the daemon behind the link is running
    lastSend,           \* outcome of the send() that finished last
    nsends,             \* send() calls so far
    connects,           \* connect() calls so far
    quitSeen,           \* a send() returned a QUIT line of the daemon
    lateWrites,         \* commands written to the link after that
    lastDisc,           \* what the disconnect() that finished last did
    \* ---- Part V: Conductor and the EV3 daemon session ----
    project,            \* the EV3 device has a project configured
    cpc,                \* position of the program around `async with Conductor`
    devices,            \* DeviceState of every registered device
    realUp,             \* the device's connection was really established
    opened,             \* the device's link (SSH connection, BLE link) is open
    connResult,         \* result of each _connect_device task of connect_all
    connectResult,      \* return value of connect_all ("none" before it returned)
    exc,                \* the exception that ended connect_all or the body
    propagated,         \* the exception with which `async with` was left
    discRuns,           \* disconnect_all calls so far
    dcur,               \* position of disconnect_all's loop over the devices
    discAttempted,      \* devices _disconnect_device was called for
    discRaised,         \* devices whose _disconnect_device raised
    spc,                \* position of each Conductor.send call in progress
    scmd,               \* the command of each Conductor.send call in progress
    sres,               \* outcome of the Conductor.send each caller finished last
    running,            \* EV3DaemonSession._running
    sessIn,             \* commands written to the daemon's stdin, not yet answered
    sessOut,            \* lines on the daemon's stdout the session has not read
    sdaemon,            \* the daemon process behind the session is running
    csends,             \* Conductor.send calls so far
    contacts,           \* platform sends started so far
    terminal,           \* a session send saw QUIT or an unexpected empty reply
    sessLateWrites,     \* commands written to the daemon after that
    \* ---- Part VI: SpikeInterface.connect / disconnect / _on_data ----
    client,             \* self._client: "none", or a BleakClient whose link is "open" / "closed"
    notifying,          \* start_notify is in effect on that client
    sconnected,         \* self._connected
    info_response,      \* self._info_response: "None" or the hub's InfoResponse
    kpc,                \* position of the connect() / disconnect() call in progress
    csteps,             \* what the connect() call in progress or finished last did, in order
    leaked,             \* links still open that self._client no longer refers to
    air,                \* notifications (frame fragments) the link has not delivered yet
    hubIn,              \* requests the hub got and has not answered
    lastCall,           \* the connect() / disconnect() call that finished last
    lastResp,           \* the response frame whose last fragment _on_data got last
    lastNote,           \* the console frame whose last fragment _on_data got last
    ncalls,             \* connect() and disconnect() calls so far
    nnotes,             \* console frames the hub program printed so far
    \* ---- Part VII: the bytes of an upload ----
    program,            \* the program being uploaded, a sequence of bytes
    max_packet_size,    \* self._info_response.max_packet_size
    upc,                \* position of the upload: "idle", "loop", "done", "failed"
    upi,                \* loop variable `i` of the chunk loop
    running_crc,        \* local `running_crc`
    program_crc,        \* local `program_crc`, announced in StartFileUpload
    chunks,             \* the TransferChunk messages sent so far: [running_crc, payload]
    frame,              \* the frame of the message sent last
    writes,             \* the packets write_gatt_char was called with for that frame
    \* ---- Part VIII: SpikeFastInterface.fast_action ----
    programs_uploaded,  \* self._programs_uploaded
    action_slots,       \* the names that are keys of self._action_slots
    fcall,              \* the fast_action call in progress or finished last
    \* ---- Part IX: the collaboration patterns ----
    robots,             \* the names registered in the `robots` dict of the call
    batch,              \* the `actions` list of the call: [robot, kind]
    gap_ms,             \* ChoreographedPattern.gap_ms
    ppc,                \* position of execute: "idle", ..., "returned", "raised"
    pidx,               \* SignalBasedPattern: position of the for loop in the batch
    ptask,              \* the tasks gather runs: per action, or per robot
    plog,               \* what execute did so far (per robot for the choreography)
    sq,                 \* SignalQueue._queue, oldest signal first
    sqn,                \* signals put so far
    swait,              \* per waiter: "idle" or "waiting" inside wait()
    sqlog,              \* what the wait calls returned, in the order they returned
    sqlast,             \* the queue operation that ran last
    \* ---- Part X: byte stuffing ----
    cobs_in,            \* the payload handed to cobs.pack
    cobs_frame,         \* the packed frame
    cobs_out,           \* what cobs.unpack made of the frame
    cobs_pc             \* "payload", "packed", "unpacked"

ev3vars == <<transport_type, auto_start_daemon, serial_available, bt_creatable,
             transport, connected, transportOpen, pc, idx, attempt,
             tried, sleeps, bootstraps, bootstrapOk, attempts, orphans>>

spikevars == <<max_chunk_size, pending_response, futState, futResult, tpc, op,
               script, awaiting, hubq, oplog, ops, timedOut, hubProg>>

intvars == <<console_callback, signal_queue, completed, loop_i, sigTimedOut,
             received, cbLog, cbDone>>

linkvars == <<lpc, cur, linkIn, linkBuf, daemonUp, lastSend, nsends, connects,
              quitSeen, lateWrites, lastDisc>>

condvars == <<project, cpc, devices, realUp, opened, connResult, connectResult, exc,
              propagated, discRuns, dcur, discAttempted, discRaised, spc, scmd,
              sres, running, sessIn, sessOut, sdaemon, csends, contacts, terminal,
              sessLateWrites>>

connvars == <<client, notifying, sconnected, info_response, kpc, csteps, leaked,
              air, hubIn, lastCall, lastResp, lastNote, ncalls, nnotes>>

upvars == <<program, max_packet_size, upc, upi, running_crc, program_crc, chunks,
            frame, writes>>

fastvars == <<programs_uploaded, action_slots, fcall>>

colvars == <<robots, batch, gap_ms, ppc, pidx, ptask, plog, sq, sqn, swait, sqlog,
             sqlast>>

cobsvars == <<cobs_in, cobs_frame, cobs_out, cobs_pc>>

libvars == <<colvars, cobsvars>>

\* Everything of Parts VI to X.
blevars == <<connvars, upvars, fastvars, libvars>>

\* Everything of Parts I to VIII.
hostvars == <<ev3vars, spikevars, intvars, linkvars, condvars, connvars, upvars,
              fastvars>>

vars == <<ev3vars, spikevars, intvars, linkvars, condvars, blevars>>

(***************************************************************************)
(* Part I.  EV3MicroPython.connect                                         *)
(***************************************************************************)

\* A changed auto-detect order (WiFi before USB).
PriorityWifiFirst == <<"wifi", "usb", "bluetooth">>

\* The auto-detect order of _try_connect.
Priority == <<"usb", "wifi", "bluetooth">>

\* range(5) of the retry loop.
MaxRetries == 5

\* A doubling backoff (2, 4, 8, 16, 32) in place of the linear one.
RetryWaitDoubling(a) == 2 ^ (a + 1)

\* wait_time = 2 + attempt * 2
RetryWait(a) == 2 + a * 2

\* _create_transport: TRUE when it returns a transport object, FALSE for None.
CreateTransport(t) ==
    CASE t = "usb"       -> serial_available
      [] t = "wifi"      -> TRUE
      [] t = "bluetooth" -> bt_creatable
      [] OTHER           -> FALSE

\* What Transport.connect() of each variant can do.
\*   ok        connected, returns True
\*   fail      returns False (every variant catches its own connect errors)
\*   raise     USB only: find_ev3_port() runs outside the try block
ConnectOutcomes(t) ==
    IF t = "usb" THEN {"ok", "fail", "raise"} ELSE {"ok", "fail"}

\* The transports one _try_connect walks through.
Order == IF transport_type = "auto" THEN Priority ELSE <<transport_type>>

InitEV3Part ==
    /\ transport_type \in {"auto", "usb", "wifi", "bluetooth"}
    /\ auto_start_daemon \in BOOLEAN
    /\ serial_available \in BOOLEAN
    /\ bt_creatable \in BOOLEAN
    /\ transport = "none"
    /\ connected = FALSE
    /\ transportOpen = FALSE
    /\ pc = "idle"
    /\ idx = 1
    /\ attempt = -1
    /\ tried = <<>>
    /\ sleeps = <<>>
    /\ bootstraps = 0
    /\ bootstrapOk = "none"
    /\ attempts = 0
    /\ orphans = 0

\* connect(): the first `await self._try_connect()`.
Connect ==
    /\ pc = "idle"
    /\ pc' = "try"
    /\ idx' = 1
    /\ tried' = <<>>
    /\ attempts' = attempts + 1
    /\ UNCHANGED <<spikevars, intvars, linkvars, condvars, blevars>>
    /\ UNCHANGED <<transport_type, auto_start_daemon, serial_available, bt_creatable,
                   transport, connected, transportOpen, orphans, attempt, sleeps,
                   bootstraps, bootstrapOk>>

\* The link keeps the transport and marks itself connected before READY is seen.
AdoptTransport(t) ==
    /\ transport' = t
    /\ connected' = TRUE
    /\ transportOpen' = TRUE
    /\ orphans' = IF transportOpen THEN orphans + 1 ELSE orphans
    /\ linkIn' = <<>>             \* a new stream, nothing written or received yet
    /\ linkBuf' = <<>>

\* One iteration of the transport loop up to `await transport.connect()`.
TryTransport ==
    /\ pc = "try"
    /\ idx <= Len(Order)
    /\ LET t == Order[idx] IN
       IF ~CreateTransport(t)
       THEN \* _create_transport returned None: skipped
            /\ idx' = idx + 1
            /\ UNCHANGED <<transport, connected, transportOpen, orphans, linkIn,
                           linkBuf, pc, tried>>
       ELSE \E o \in ConnectOutcomes(t) :
            CASE o = "ok" ->
                   /\ AdoptTransport(t)
                   /\ pc' = "wait_ready"
                   /\ tried' = Append(tried, [t |-> t, result |-> "connected"])
                   /\ UNCHANGED idx
              [] o = "fail" ->
                   /\ idx' = idx + 1
                   /\ tried' = Append(tried, [t |-> t, result |-> "connect_failed"])
                   /\ UNCHANGED <<transport, connected, transportOpen, orphans, linkIn,
                                  linkBuf, pc>>
              [] o = "raise" ->
                   /\ tried' = Append(tried, [t |-> t, result |-> "connect_failed"])
                   /\ IF transport_type = "auto"
                      THEN idx' = idx + 1 /\ pc' = pc    \* except Exception: continue
                      ELSE idx' = idx /\ pc' = "raised"  \* propagates out of connect()
                   /\ UNCHANGED <<transport, connected, transportOpen, orphans, linkIn,
                                  linkBuf>>
    /\ UNCHANGED <<lpc, cur, daemonUp, lastSend, nsends, connects, quitSeen,
                   lateWrites, lastDisc>>
    /\ UNCHANGED <<spikevars, intvars, condvars, blevars>>
    /\ UNCHANGED <<transport_type, auto_start_daemon, serial_available, bt_creatable,
                   attempt, sleeps, bootstraps, bootstrapOk, attempts>>

\* What _try_connect does when _wait_ready returned False.
NoReady ==
    /\ transportOpen' = FALSE      \* await transport.disconnect()
    /\ UNCHANGED <<transport, connected, orphans>>

\* `ready = await self._wait_ready()` and the branch on it.  _wait_ready returns
\* False on a receive timeout, on a line without READY and on any exception.
WaitReady ==
    /\ pc = "wait_ready"
    /\ \E ready \in BOOLEAN :
         /\ daemonUp' = (ready \/ daemonUp)   \* READY came from a running daemon
         /\ IF ready
            THEN /\ pc' = "returned_true"
                 /\ tried' = [tried EXCEPT ![Len(tried)].result = "ready"]
                 /\ UNCHANGED <<transport, connected, transportOpen, orphans, idx>>
            ELSE /\ NoReady
                 /\ tried' = [tried EXCEPT ![Len(tried)].result = "no_ready"]
                 /\ idx' = idx + 1
                 /\ pc' = "try"
    /\ UNCHANGED <<lpc, cur, linkIn, linkBuf, lastSend, nsends, connects, quitSeen,
                   lateWrites, lastDisc>>
    /\ UNCHANGED <<spikevars, intvars, condvars, blevars>>
    /\ UNCHANGED <<transport_type, auto_start_daemon, serial_available, bt_creatable,
                   attempt, sleeps, bootstraps, bootstrapOk, attempts>>

\* _try_connect returned False; connect() decides what follows.
TryConnectFailed ==
    /\ pc = "try"
    /\ idx > Len(Order)
    /\ IF attempt = -1
       THEN pc' = IF auto_start_daemon THEN "bootstrap" ELSE "returned_false"
       ELSE pc' = IF attempt + 1 < MaxRetries THEN "sleep" ELSE "returned_false"
    /\ attempt' = IF attempt >= 0 /\ attempt + 1 < MaxRetries THEN attempt + 1 ELSE attempt
    /\ UNCHANGED <<spikevars, intvars, linkvars, condvars, blevars>>
    /\ UNCHANGED <<transport_type, auto_start_daemon, serial_available, bt_creatable,
                   transport, connected, transportOpen, orphans, idx, tried, sleeps,
                   bootstraps, bootstrapOk, attempts>>

\* `await self._start_daemon_via_ssh()`: False when paramiko is missing or any
\* SSH step raises.
StartDaemonViaSSH ==
    /\ pc = "bootstrap"
    /\ bootstraps' = bootstraps + 1
    /\ \E ok \in BOOLEAN :
         /\ bootstrapOk' = IF ok THEN "ok" ELSE "failed"
         /\ pc' = IF ok THEN "sleep" ELSE "returned_false"
         /\ attempt' = IF ok THEN 0 ELSE attempt
    /\ UNCHANGED <<spikevars, intvars, linkvars, condvars, blevars>>
    /\ UNCHANGED <<transport_type, auto_start_daemon, serial_available, bt_creatable,
                   transport, connected, transportOpen, orphans, idx, tried, sleeps,
                   attempts>>

\* `await asyncio.sleep(wait_time)` followed by the retry's _try_connect call.
SleepAndRetry ==
    /\ pc = "sleep"
    /\ sleeps' = Append(sleeps, RetryWait(attempt))
    /\ pc' = "try"
    /\ idx' = 1
    /\ tried' = <<>>
    /\ attempts' = attempts + 1
    /\ UNCHANGED <<spikevars, intvars, linkvars, condvars, blevars>>
    /\ UNCHANGED <<transport_type, auto_start_daemon, serial_available, bt_creatable,
                   transport, connected, transportOpen, orphans, attempt, bootstraps,
                   bootstrapOk>>

\* EV3MicroPython.is_connected
is_connected == connected /\ transport # "none"

(***************************************************************************)
(* Part II.  The Spike Prime session: _send_request / _on_data, the hub,   *)
(* and the upload operations built on them.                                *)
(***************************************************************************)

\* Coroutines that use one session.  "main" runs the upload operations; "other"
\* is a second caller of the same session (it calls stop()).
Tasks == {"main", "other"}

None == "None"

\* Most operations started on one session.
MaxOps == 2
\* Longest program handed to upload_and_run, in the unit max_chunk_size counts.
MaxProgLen == 4
\* Most actions passed to run_sequence / run_interactive_sequence.
MaxActions == 2
\* Most run_interactive_sequence calls on one session.
MaxCalls == 1
\* Largest max_chunk_size the hub reports.
MaxChunk == 6

\* SpikeFastInterface.__init__: super().__init__(address, name, slot=0)
DefaultSlot == 0
\* Scratch slot of run_sequence and _run_single_action.
SequenceSlot == 18
\* Scratch slot of run_interactive_sequence.
InteractiveSlot == 17

\* Action types the sequences are called with; "dance" is one they do not know.
ActionTypes == {"beep", "display", "delay", "dance"}

\* The response type _send_request registers for a request.
ResponseId(msg) ==
    CASE msg = "ProgramFlow"     -> "ProgramFlowResponse"
      [] msg = "ClearSlot"       -> "ClearSlotResponse"
      [] msg = "StartFileUpload" -> "StartFileUploadResponse"
      [] msg = "TransferChunk"   -> "TransferChunkResponse"
      [] msg = "InfoRequest"     -> "InfoResponse"

\* ---- protocol steps: kind "req" is _send_request, "msg" is _send_message;
\* ---- ignore marks a request wrapped in try/except: pass; markers is the
\* ---- number of DONE markers the program started by a ProgramFlow prints.
StopReq(slot) ==
    [kind |-> "req", msg |-> "ProgramFlow", stop |-> TRUE, k |-> 0,
     slot |-> slot, ignore |-> TRUE, markers |-> 0]

ClearReq(slot) ==
    [kind |-> "req", msg |-> "ClearSlot", stop |-> FALSE, k |-> 0,
     slot |-> slot, ignore |-> TRUE, markers |-> 0]

StartUploadReq(slot) ==
    [kind |-> "req", msg |-> "StartFileUpload", stop |-> FALSE, k |-> 0,
     slot |-> slot, ignore |-> FALSE, markers |-> 0]

ChunkReq(slot, k) ==
    [kind |-> "req", msg |-> "TransferChunk", stop |-> FALSE, k |-> k,
     slot |-> slot, ignore |-> FALSE, markers |-> 0]

FlowStartReq(slot) ==
    [kind |-> "req", msg |-> "ProgramFlow", stop |-> FALSE, k |-> 0,
     slot |-> slot, ignore |-> FALSE, markers |-> 0]

FlowStartMsg(slot, n) ==
    [kind |-> "msg", msg |-> "ProgramFlow", stop |-> FALSE, k |-> 0,
     slot |-> slot, ignore |-> FALSE, markers |-> n]

\* Number of iterations of `for i in range(0, len(program), chunk_size)`.
NumChunks(len, cs) == (len + cs - 1) \div cs

\* _upload_to_slot(slot, program): ClearSlot (errors ignored), StartFileUpload,
\* then one TransferChunk per chunk.
UploadToSlot(slot, len) ==
    <<ClearReq(slot), StartUploadReq(slot)>> \o
    [k \in 1..NumChunks(len, max_chunk_size) |-> ChunkReq(slot, k)]

\* upload_and_run(program): stop (errors ignored), clear (errors ignored),
\* StartFileUpload, the chunks, then ProgramFlow(start) as a request.
UploadAndRun(len) ==
    <<StopReq(DefaultSlot), ClearReq(DefaultSlot), StartUploadReq(DefaultSlot)>> \o
    [k \in 1..NumChunks(len, max_chunk_size) |-> ChunkReq(DefaultSlot, k)] \o
    <<FlowStartReq(DefaultSlot)>>

\* Number of actions of the list whose type is in S.
CountIn(actions, S) == Cardinality({i \in 1..Len(actions) : actions[i] \in S})

\* Length of the program run_sequence generates, in code lines: six header
\* lines, one line per beep / display / delay action, one sleep line per action
\* when delay_ms > 0, then the blank line and runloop.run(main()).
SequenceProgramLen(actions, delay_ms) ==
    6 + CountIn(actions, {"beep", "display", "delay"})
      + (IF delay_ms > 0 THEN Len(actions) ELSE 0)
      + 2

\* A run_sequence that uploads and starts one program per action.
RunSequencePerAction(actions, delay_ms) ==
    IF actions = <<>> THEN <<>>
    ELSE UploadToSlot(SequenceSlot, SequenceProgramLen(<<actions[1]>>, delay_ms))
           \o <<FlowStartMsg(SequenceSlot, 0)>>
           \o (IF Len(actions) > 1
               THEN UploadToSlot(SequenceSlot,
                                 SequenceProgramLen(Tail(actions), delay_ms))
                      \o <<FlowStartMsg(SequenceSlot, 0)>>
               ELSE <<>>)

\* run_sequence(actions, delay_ms): one generated program, uploaded to slot 18
\* and started with a fire-and-forget ProgramFlow.
RunSequence(actions, delay_ms) ==
    UploadToSlot(SequenceSlot, SequenceProgramLen(actions, delay_ms))
      \o <<FlowStartMsg(SequenceSlot, 0)>>

\* Length of the program run_interactive_sequence generates: six header lines,
\* one line per beep / display action, the print("DONE:i") and the
\* time.sleep(1.0) line of every action, the blank line and runloop.run(main()).
InteractiveProgramLen(actions) ==
    6 + CountIn(actions, {"beep", "display"}) + 2 * Len(actions) + 2

\* run_interactive_sequence up to "Program started": upload to slot 17 and a
\* fire-and-forget ProgramFlow; the program prints one marker per action.
RunInteractive(actions) ==
    UploadToSlot(InteractiveSlot, InteractiveProgramLen(actions))
      \o <<FlowStartMsg(InteractiveSlot, Len(actions))>>

\* stop(): one ProgramFlow(stop) request; any error makes it return False.
Stop == <<[kind |-> "req", msg |-> "ProgramFlow", stop |-> TRUE, k |-> 0,
           slot |-> DefaultSlot, ignore |-> FALSE, markers |-> 0]>>

\* All sequences over S of length 0..n.
SeqsUpTo(S, n) == UNION {[1..m -> S] : m \in 0..n}

IdleOp == [name |-> "none", len |-> 0, n |-> 0, cb |-> FALSE]

NoProgram == [gen |-> 0, left |-> <<>>]

\* The result of a future that has none.
NoMessage ==
    [msg |-> None, stop |-> FALSE, k |-> 0, from |-> None, markers |-> 0, gen |-> 0]

InitSpikePart ==
    /\ max_chunk_size \in {MaxChunk \div 2, MaxChunk}
    /\ pending_response = [id |-> None, fut |-> None]
    /\ futState = [c \in Tasks |-> "none"]
    /\ futResult = [c \in Tasks |-> NoMessage]
    /\ tpc = [c \in Tasks |-> "idle"]
    /\ op = [c \in Tasks |-> IdleOp]
    /\ script = [c \in Tasks |-> <<>>]
    /\ awaiting = [c \in Tasks |-> None]
    /\ hubq = <<>>
    /\ oplog = [c \in Tasks |-> <<>>]
    /\ ops = [c \in Tasks |-> 0]
    /\ timedOut = FALSE
    /\ hubProg = NoProgram

InitInteractivePart ==
    /\ console_callback = None
    /\ signal_queue = <<>>
    /\ completed = 0
    /\ loop_i = 0
    /\ sigTimedOut = FALSE
    /\ received = <<>>
    /\ cbLog = <<>>
    /\ cbDone = 0

\* A task that is between operations.
Free(c) == tpc[c] \in {"idle", "returned", "failed", "raised"}

\* Where a task stands once the protocol steps of its operation are through:
\* run_interactive_sequence goes on to its wait loop, the others return.
AfterScript(o) ==
    IF o.name = "run_interactive_sequence" THEN "listening" ELSE "returned"

\* Common part of starting an operation.
Begin(c, o, steps) ==
    /\ Free(c)
    /\ ops["main"] + ops["other"] < MaxOps
    /\ ops' = [ops EXCEPT ![c] = @ + 1]
    /\ op' = [op EXCEPT ![c] = o]
    /\ script' = [script EXCEPT ![c] = steps]
    /\ oplog' = [oplog EXCEPT ![c] = <<>>]
    /\ tpc' = [tpc EXCEPT ![c] = IF steps = <<>> THEN AfterScript(o) ELSE "ready"]
    /\ UNCHANGED <<max_chunk_size, pending_response, futState, futResult, awaiting, hubq,
                   timedOut, hubProg>>
    /\ UNCHANGED <<ev3vars, linkvars, condvars, connvars, upvars, libvars>>

\* main calls upload_and_run(program) on a connected session.
CallUploadAndRun ==
    /\ \E len \in 0..MaxProgLen :
          Begin("main", [name |-> "upload_and_run", len |-> len, n |-> 0,
                         cb |-> FALSE],
                UploadAndRun(len))
    /\ UNCHANGED intvars
    /\ UNCHANGED fastvars

\* main calls run_sequence(actions, delay_ms).
CallRunSequence ==
    /\ \E actions \in SeqsUpTo(ActionTypes, MaxActions), delay_ms \in {0, 100} :
          Begin("main",
                [name |-> "run_sequence",
                 len |-> SequenceProgramLen(actions, delay_ms),
                 n |-> Len(actions), cb |-> FALSE],
                RunSequence(actions, delay_ms))
    /\ UNCHANGED intvars
    /\ UNCHANGED fastvars

\* other calls stop().
CallStop ==
    /\ Begin("other", [name |-> "stop", len |-> 0, n |-> 0, cb |-> FALSE], Stop)
    /\ UNCHANGED intvars
    /\ UNCHANGED fastvars

\* The current step of c.
Step(c) == Head(script[c])

\* An entry of the operation's log: what happened to step st.  own tells, for
\* a response, whether it is the hub's answer to the message of this very step.
Event(e, st, own) ==
    [ev |-> e, msg |-> st.msg, stop |-> st.stop, k |-> st.k, slot |-> st.slot,
     own |-> own]

\* The message as the hub gets it; gen names the call that sent it.
Wire(c, st) ==
    [msg |-> st.msg, stop |-> st.stop, k |-> st.k, from |-> c,
     markers |-> st.markers, gen |-> ops[c]]

\* m is the message the current step of c wrote.
Own(c, m) == m = Wire(c, Step(c))

\* The step of c ended without an error that ends the operation: go on.
Advance(c, e, own) ==
    /\ script' = [script EXCEPT ![c] = Tail(@)]
    /\ tpc' = [tpc EXCEPT ![c] =
                 IF Tail(script[c]) = <<>> THEN AfterScript(op[c]) ELSE "ready"]
    /\ oplog' = [oplog EXCEPT ![c] = Append(@, Event(e, Step(c), own))]

\* How an operation ends when one of its steps raised: upload_and_run and
\* stop() catch the exception and return False, the others let it propagate.
FailedAs(c) ==
    IF op[c].name \in {"upload_and_run", "stop"} THEN "failed" ELSE "raised"

\* The step of c raised: an ignored error goes on, any other ends the operation.
Raise(c) ==
    IF Step(c).ignore
    THEN Advance(c, "failed", TRUE)
    ELSE /\ tpc' = [tpc EXCEPT ![c] = FailedAs(c)]
         /\ oplog' = [oplog EXCEPT ![c] = Append(@, Event("failed", Step(c), TRUE))]
         /\ UNCHANGED script

\* _send_message(message), fire-and-forget: the frame is written to the hub.
SendMessage(c) ==
    /\ tpc[c] = "ready"
    /\ Step(c).kind = "msg"
    /\ \/ /\ hubq' = Append(hubq, Wire(c, Step(c)))
          /\ Advance(c, "sent", TRUE)
       \/ \* write_gatt_char raised
          /\ Raise(c)
          /\ UNCHANGED hubq
    /\ UNCHANGED <<max_chunk_size, pending_response, futState, futResult, op, awaiting, ops,
                   timedOut, hubProg>>
    /\ UNCHANGED <<ev3vars, linkvars, condvars, intvars, blevars>>

\* The slot a new request registers: the response type and a fresh Future.
\* The previous content of the slot is overwritten without being looked at.
RegisterPending(c, st) == [id |-> ResponseId(st.msg), fut |-> c]

\* _send_request, lines 315-316: register the pending slot, then write the
\* message.  The write has suspension points, so the task is not yet waiting.
SendRequest(c) ==
    /\ tpc[c] = "ready"
    /\ Step(c).kind = "req"
    /\ pending_response' = RegisterPending(c, Step(c))
    /\ futState' = [futState EXCEPT ![c] = "pending"]
    /\ futResult' = [futResult EXCEPT ![c] = NoMessage]
    /\ timedOut' = FALSE
    /\ \/ /\ hubq' = Append(hubq, Wire(c, Step(c)))
          /\ tpc' = [tpc EXCEPT ![c] = "sending"]
          /\ oplog' = [oplog EXCEPT ![c] = Append(@, Event("sent", Step(c), TRUE))]
          /\ UNCHANGED script
       \/ \* write_gatt_char raised
          /\ Raise(c)
          /\ UNCHANGED hubq
    /\ UNCHANGED <<max_chunk_size, op, awaiting, ops, hubProg>>
    /\ UNCHANGED <<ev3vars, linkvars, condvars, intvars, blevars>>

\* _send_request, line 317: wait_for(self._pending_response[1], timeout).  The
\* slot is read again here; a future that is already done returns at once, a
\* cancelled one raises.
BeginAwait(c) ==
    /\ tpc[c] = "sending"
    /\ LET f == pending_response.fut IN
       CASE futState[f] = "done" ->
              /\ Advance(c, "acked", Own(c, futResult[f]))
              /\ UNCHANGED awaiting
         [] futState[f] = "cancelled" ->
              /\ Raise(c)
              /\ UNCHANGED awaiting
         [] OTHER ->
              /\ awaiting' = [awaiting EXCEPT ![c] = f]
              /\ tpc' = [tpc EXCEPT ![c] = "awaiting"]
              /\ UNCHANGED <<script, oplog>>
    /\ UNCHANGED <<max_chunk_size, pending_response, futState, futResult, op, hubq, ops,
                   timedOut, hubProg>>
    /\ UNCHANGED <<ev3vars, linkvars, condvars, intvars, blevars>>

\* The tasks suspended on future f.
Waiters(f) == {c \in Tasks : tpc[c] = "awaiting" /\ awaiting[c] = f}

\* Future f was settled: every task suspended on it resumes, with the response
\* m (ok) or with the exception.
Resume(f, ok, m) ==
    /\ tpc' = [c \in Tasks |->
                 IF c \notin Waiters(f) THEN tpc[c]
                 ELSE IF ok \/ Step(c).ignore
                      THEN (IF Tail(script[c]) = <<>>
                            THEN AfterScript(op[c]) ELSE "ready")
                      ELSE FailedAs(c)]
    /\ script' = [c \in Tasks |->
                 IF c \in Waiters(f) /\ (ok \/ Step(c).ignore)
                 THEN Tail(script[c]) ELSE script[c]]
    /\ oplog' = [c \in Tasks |->
                 IF c \in Waiters(f)
                 THEN Append(oplog[c],
                             Event(IF ok THEN "acked" ELSE "failed", Step(c),
                                   ok => Own(c, m)))
                 ELSE oplog[c]]
    /\ awaiting' = [c \in Tasks |-> IF c \in Waiters(f) THEN None ELSE awaiting[c]]

\* What the timeout of wait_for leaves in the pending slot: the code does not
\* touch it.
SlotAfterTimeout == pending_response

\* wait_for timed out: the future is cancelled and TimeoutError is raised in
\* the waiting task (any other task suspended on the same future is cancelled).
Timeout(c) ==
    /\ tpc[c] = "awaiting"
    /\ futState[awaiting[c]] = "pending"
    /\ futState' = [futState EXCEPT ![awaiting[c]] = "cancelled"]
    /\ Resume(awaiting[c], FALSE, NoMessage)
    /\ pending_response' = SlotAfterTimeout
    /\ timedOut' = TRUE
    /\ UNCHANGED <<max_chunk_size, futResult, op, hubq, ops, hubProg>>
    /\ UNCHANGED <<ev3vars, linkvars, condvars, intvars, blevars>>

\* _on_data for the complete response frame that answers message m: the pending
\* future is resolved when the type of the response is the registered one;
\* set_result on a future that is no longer pending raises InvalidStateError,
\* which is swallowed.
OnData(m) ==
    IF /\ pending_response.id # None
       /\ ResponseId(m.msg) = pending_response.id
       /\ futState[pending_response.fut] = "pending"
    THEN /\ futState' = [futState EXCEPT ![pending_response.fut] = "done"]
         /\ futResult' = [futResult EXCEPT ![pending_response.fut] = m]
         /\ Resume(pending_response.fut, TRUE, m)
    ELSE UNCHANGED <<futState, futResult, tpc, script, oplog, awaiting>>

\* What a message does to the program running on the hub: ProgramFlow(stop)
\* stops it, ProgramFlow(start) replaces it by the program of that slot.
HubEffect(m) ==
    IF m.msg # "ProgramFlow" THEN hubProg
    ELSE IF m.stop THEN NoProgram
    ELSE [gen |-> m.gen, left |-> [i \in 1..m.markers |-> i - 1]]

\* The hub handles the oldest message it has not handled yet and answers it.
HubRespond ==
    /\ hubq # <<>>
    /\ hubq' = Tail(hubq)
    /\ hubProg' = HubEffect(Head(hubq))
    /\ OnData(Head(hubq))
    /\ UNCHANGED <<max_chunk_size, pending_response, op, ops, timedOut>>
    /\ UNCHANGED <<ev3vars, linkvars, condvars, intvars, blevars>>

\* No answer reaches the host: the message was lost, or it was handled and the
\* response was lost (_on_data drops a notification that does not end in 0x02).
HubDrop ==
    /\ hubq # <<>>
    /\ hubq' = Tail(hubq)
    /\ hubProg' \in {hubProg, HubEffect(Head(hubq))}
    /\ UNCHANGED <<max_chunk_size, pending_response, futState, futResult, tpc, op, script,
                   awaiting, oplog, ops, timedOut>>
    /\ UNCHANGED <<ev3vars, linkvars, condvars, intvars, blevars>>

(***************************************************************************)
(* Part III.  SpikeFastInterface.run_interactive_sequence                  *)
(***************************************************************************)

\* main calls run_interactive_sequence(actions, on_action_done): a new queue,
\* the console callback registered, then the upload.
CallRunInteractive ==
    /\ ops["main"] < MaxCalls
    /\ \E actions \in SeqsUpTo(ActionTypes, MaxActions), cb \in BOOLEAN :
          Begin("main",
                [name |-> "run_interactive_sequence",
                 len |-> InteractiveProgramLen(actions),
                 n |-> Len(actions), cb |-> cb],
                RunInteractive(actions))
    /\ console_callback' = "on_console"
    /\ signal_queue' = <<>>
    /\ completed' = 0
    /\ loop_i' = 0
    /\ sigTimedOut' = FALSE
    /\ received' = <<>>
    /\ cbLog' = <<>>
    /\ cbDone' = 0
    /\ UNCHANGED fastvars

\* The program on the hub prints its next marker.  _on_data hands the text to
\* the registered console callback, which queues the parsed index; without a
\* callback, or when the notification is dropped, the marker is lost.
ProgramEmit ==
    /\ hubProg.left # <<>>
    /\ hubProg' = [hubProg EXCEPT !.left = Tail(@)]
    /\ \/ /\ console_callback = "on_console"
          /\ signal_queue' = Append(signal_queue, Head(hubProg.left))
          /\ received' = Append(received,
                                [idx |-> Head(hubProg.left), gen |-> hubProg.gen])
       \/ UNCHANGED <<signal_queue, received>>
    /\ UNCHANGED <<console_callback, completed, loop_i, sigTimedOut, cbLog, cbDone>>
    /\ UNCHANGED <<max_chunk_size, pending_response, futState, futResult, tpc, op, script,
                   awaiting, hubq, oplog, ops, timedOut>>
    /\ UNCHANGED <<ev3vars, linkvars, condvars, blevars>>

\* A wait loop that passes the index of the marker to on_action_done.
CallbackArgIndex(sig) == sig

\* The argument the wait loop passes to on_action_done for the signal sig it
\* took from the queue.
CallbackArg(sig) == completed + 1

\* A wait loop that goes on to the next action after a signal timeout.
AfterSignalTimeoutContinue == "continue"

\* What the wait loop does after a signal timeout: break.
AfterSignalTimeout == "returned"

\* `idx = await wait_for(signal_queue.get(), 5.0)` returned a signal:
\* completed += 1, then on_action_done(completed) is awaited if given.
TakeSignal ==
    /\ tpc["main"] = "listening"
    /\ loop_i < op["main"].n
    /\ signal_queue # <<>>
    /\ signal_queue' = Tail(signal_queue)
    /\ completed' = completed + 1
    /\ IF op["main"].cb
       THEN /\ cbLog' = Append(cbLog, CallbackArg(Head(signal_queue)))
            /\ tpc' = [tpc EXCEPT !["main"] = "in_callback"]
            /\ UNCHANGED loop_i
       ELSE /\ loop_i' = loop_i + 1
            /\ UNCHANGED <<cbLog, tpc>>
    /\ UNCHANGED <<console_callback, sigTimedOut, received, cbDone>>
    /\ UNCHANGED <<max_chunk_size, pending_response, futState, futResult, op, script,
                   awaiting, hubq, oplog, ops, timedOut, hubProg>>
    /\ UNCHANGED <<ev3vars, linkvars, condvars, blevars>>

\* on_action_done returned, or raised.  An asyncio.TimeoutError it raises is
\* caught by the loop's handler (break, clear the callback, return); any other
\* exception leaves run_interactive_sequence at once.
CallbackDone ==
    /\ tpc["main"] = "in_callback"
    /\ \/ /\ cbDone' = cbDone + 1
          /\ loop_i' = loop_i + 1
          /\ tpc' = [tpc EXCEPT !["main"] = "listening"]
          /\ UNCHANGED console_callback
       \/ /\ console_callback' = None
          /\ tpc' = [tpc EXCEPT !["main"] = "returned"]
          /\ UNCHANGED <<cbDone, loop_i>>
       \/ /\ tpc' = [tpc EXCEPT !["main"] = "raised"]
          /\ UNCHANGED <<cbDone, loop_i, console_callback>>
    /\ UNCHANGED <<signal_queue, completed, sigTimedOut, received, cbLog>>
    /\ UNCHANGED <<max_chunk_size, pending_response, futState, futResult, op, script,
                   awaiting, hubq, oplog, ops, timedOut, hubProg>>
    /\ UNCHANGED <<ev3vars, linkvars, condvars, blevars>>

\* The 5 s wait_for on the empty queue timed out: break, clear the callback,
\* return.
SignalTimeout ==
    /\ tpc["main"] = "listening"
    /\ loop_i < op["main"].n
    /\ signal_queue = <<>>
    /\ sigTimedOut' = TRUE
    /\ IF AfterSignalTimeout = "returned"
       THEN /\ console_callback' = None
            /\ tpc' = [tpc EXCEPT !["main"] = "returned"]
            /\ UNCHANGED loop_i
       ELSE /\ loop_i' = loop_i + 1
            /\ UNCHANGED <<console_callback, tpc>>
    /\ UNCHANGED <<signal_queue, completed, received, cbLog, cbDone>>
    /\ UNCHANGED <<max_chunk_size, pending_response, futState, futResult, op, script,
                   awaiting, hubq, oplog, ops, timedOut, hubProg>>
    /\ UNCHANGED <<ev3vars, linkvars, condvars, blevars>>

\* The wait loop ran through all actions: clear the callback, return.
LoopExit ==
    /\ tpc["main"] = "listening"
    /\ loop_i >= op["main"].n
    /\ console_callback' = None
    /\ tpc' = [tpc EXCEPT !["main"] = "returned"]
    /\ UNCHANGED <<signal_queue, completed, loop_i, sigTimedOut, received, cbLog,
                   cbDone>>
    /\ UNCHANGED <<max_chunk_size, pending_response, futState, futResult, op, script,
                   awaiting, hubq, oplog, ops, timedOut, hubProg>>
    /\ UNCHANGED <<ev3vars, linkvars, condvars, blevars>>

(***************************************************************************)
(* Part IV.  Using the EV3 link: EV3MicroPython.send and disconnect, the   *)
(* transport's stream of reply lines, a second connect() call, and the     *)
(* daemon at the other end (platforms/ev3/ev3_micropython.py).             *)
(***************************************************************************)

\* send() calls on one link.
MaxLinkSends == 3

\* connect() calls on one link after the first.
MaxReconnects == 1

\* disconnect() calls on one link.
MaxDisconnects == 2

NoSend == [n |-> 0, outcome |-> "none", reply |-> 0, kind |-> "none"]

NoDisconnect == [n |-> 0, held |-> FALSE, quit |-> "none", closed |-> FALSE]

InitLinkPart ==
    /\ lpc = "idle"
    /\ cur = 0
    /\ linkIn = <<>>
    /\ linkBuf = <<>>
    /\ daemonUp = FALSE
    /\ lastSend = NoSend
    /\ nsends = 0
    /\ connects = 0
    /\ quitSeen = FALSE
    /\ lateWrites = 0
    /\ lastDisc = NoDisconnect

\* A connect() call is in progress on the link.
ConnectInProgress == pc \in {"try", "wait_ready", "bootstrap", "sleep"}

\* No connect(), send() or disconnect() call is in progress on the link.
LinkCallable == ~ConnectInProgress /\ lpc = "idle"

\* connect() called on a link that was connected before: the same code as the
\* first call, starting from whatever the link holds.
Reconnect ==
    /\ LinkCallable
    /\ pc # "idle"
    /\ connects < MaxReconnects
    /\ connects' = connects + 1
    /\ pc' = "try"
    /\ idx' = 1
    /\ tried' = <<>>
    /\ attempt' = -1
    /\ sleeps' = <<>>
    /\ attempts' = attempts + 1
    /\ quitSeen' = FALSE
    /\ lateWrites' = 0
    /\ UNCHANGED <<transport_type, auto_start_daemon, serial_available, bt_creatable,
                   transport, connected, transportOpen, orphans, bootstraps,
                   bootstrapOk>>
    /\ UNCHANGED <<lpc, cur, linkIn, linkBuf, daemonUp, lastSend, nsends, lastDisc>>
    /\ UNCHANGED <<spikevars, intvars, condvars, blevars>>

\* send(command) with wait_response=True, up to `await self._transport.send`.
\* A transport that was disconnected has no writer and writes nothing; writing
\* to a peer that is gone is lost or raises out of drain().
LinkSendWrite ==
    /\ LinkCallable
    /\ nsends < MaxLinkSends
    /\ nsends' = nsends + 1
    /\ IF transport = "none" \/ ~connected
       THEN /\ lastSend' = [n |-> nsends + 1, outcome |-> "not_connected",
                            reply |-> 0, kind |-> "none"]
            /\ UNCHANGED <<lpc, cur, linkIn, lateWrites>>
       ELSE \E w \in (IF transportOpen /\ ~daemonUp THEN {"ok", "raise"}
                                                  ELSE {"ok"}) :
              IF w = "ok"
              THEN /\ lpc' = "recv"
                   /\ cur' = nsends + 1
                   /\ linkIn' = IF transportOpen /\ daemonUp
                                THEN Append(linkIn, nsends + 1) ELSE linkIn
                   /\ lateWrites' = IF transportOpen /\ quitSeen
                                    THEN lateWrites + 1 ELSE lateWrites
                   /\ UNCHANGED lastSend
              ELSE /\ lastSend' = [n |-> nsends + 1, outcome |-> "write_raised",
                                   reply |-> 0, kind |-> "none"]
                   /\ lateWrites' = IF quitSeen THEN lateWrites + 1 ELSE lateWrites
                   /\ UNCHANGED <<lpc, cur, linkIn>>
    /\ UNCHANGED <<linkBuf, daemonUp, connects, quitSeen, lastDisc>>
    /\ UNCHANGED <<ev3vars, spikevars, intvars, condvars, blevars>>

\* send() from `await self._transport.receive(timeout)` on: the next line of the
\* stream if one is there, b"" when the timeout passes or the stream has ended.
\* The line is returned as the response, whatever it says.
LinkReceive ==
    /\ lpc = "recv"
    /\ lpc' = "idle"
    /\ cur' = 0
    /\ IF transportOpen /\ linkBuf # <<>>
       THEN /\ lastSend' = [n |-> cur, outcome |-> "returned",
                            reply |-> Head(linkBuf).id, kind |-> Head(linkBuf).kind]
            /\ linkBuf' = Tail(linkBuf)
            /\ quitSeen' = (quitSeen \/ Head(linkBuf).kind = "QUIT")
       ELSE /\ lastSend' = [n |-> cur, outcome |-> "returned", reply |-> 0,
                            kind |-> "empty"]
            /\ UNCHANGED <<linkBuf, quitSeen>>
    /\ UNCHANGED <<linkIn, daemonUp, nsends, connects, lateWrites, lastDisc>>
    /\ UNCHANGED <<ev3vars, spikevars, intvars, condvars, blevars>>

\* The daemon answers the oldest command it has read with one line.
LinkDaemonReply ==
    /\ daemonUp
    /\ transportOpen
    /\ linkIn # <<>>
    /\ linkBuf' = Append(linkBuf, [id |-> Head(linkIn), kind |-> "OK"])
    /\ linkIn' = Tail(linkIn)
    /\ UNCHANGED <<lpc, cur, daemonUp, lastSend, nsends, connects, quitSeen,
                   lateWrites, lastDisc>>
    /\ UNCHANGED <<ev3vars, spikevars, intvars, condvars, blevars>>

\* The daemon stops by itself (back button, crash): with a QUIT line to the
\* host, or without one.
LinkDaemonStops ==
    /\ daemonUp
    /\ transportOpen
    /\ ~ConnectInProgress
    /\ daemonUp' = FALSE
    /\ linkIn' = <<>>
    /\ \E notice \in BOOLEAN :
         linkBuf' = IF notice THEN Append(linkBuf, [id |-> 0, kind |-> "QUIT"])
                              ELSE linkBuf
    /\ UNCHANGED <<lpc, cur, lastSend, nsends, connects, quitSeen, lateWrites,
                   lastDisc>>
    /\ UNCHANGED <<ev3vars, spikevars, intvars, condvars, blevars>>

\* self._transport after disconnect(), had the closed transport been kept.
TransportAfterDisconnectKept(was) == was

\* self._transport after disconnect(): `self._transport = None`.
TransportAfterDisconnect(was) == "none"

\* disconnect(): quit without waiting (the send raises ConnectionError when the
\* link is not marked connected, writes nothing on a closed transport, and may
\* raise while writing; every error is swallowed), transport.disconnect(), then
\* both fields are cleared.
LinkDisconnect ==
    /\ LinkCallable
    /\ lastDisc.n < MaxDisconnects
    /\ \E q \in (IF transport = "none" THEN {"none"}
                 ELSE IF ~connected THEN {"not_connected"}
                 ELSE IF ~transportOpen THEN {"no_writer"}
                 ELSE IF daemonUp THEN {"written"}
                 ELSE {"written", "write_raised"}) :
         /\ lastDisc' = [n |-> lastDisc.n + 1, held |-> transport # "none",
                         quit |-> q, closed |-> transportOpen]
         /\ daemonUp' = IF q = "written" THEN FALSE ELSE daemonUp
    /\ transport' = TransportAfterDisconnect(transport)
    /\ connected' = FALSE
    /\ transportOpen' = FALSE
    /\ linkIn' = <<>>
    /\ linkBuf' = <<>>
    /\ UNCHANGED <<transport_type, auto_start_daemon, serial_available, bt_creatable,
                   pc, idx, attempt, tried, sleeps, bootstraps, bootstrapOk,
                   attempts, orphans>>
    /\ UNCHANGED <<lpc, cur, lastSend, nsends, connects, quitSeen, lateWrites>>
    /\ UNCHANGED <<spikevars, intvars, condvars, blevars>>

(***************************************************************************)
(* Part V.  Conductor (projects/orchestra/conductor.py) around one         *)
(* `async with Conductor` block, and the EV3DaemonSession it sends through *)
(* (platforms/ev3/ev3_interface.py).                                       *)
(***************************************************************************)

\* The registered devices, one per platform, in registration order.
Devices == {"ev3", "spike"}

DeviceOrder == <<"ev3", "spike">>

\* A device name nobody registered.
Unregistered == "nobody"

\* The callers of Conductor.send, and the commands they send to the EV3.
Senders == {"s1", "s2"}

Commands == {"bark", "quit"}

\* Conductor.send calls in one run.
MaxSends == 3

\* DeviceState as the dataclass creates it (interface / session: is one set).
NewDeviceState ==
    [connected |-> FALSE, interface |-> FALSE, session |-> FALSE, latency_ms |-> 0]

NoCmd == [n |-> 0, device |-> "none", cmd |-> "none"]

NoResult ==
    [n |-> 0, device |-> "none", ok |-> FALSE, latency |-> 0, raised |-> "none",
     reply |-> 0]

InitCondPart ==
    /\ project \in BOOLEAN
    /\ cpc = "init"
    /\ devices = [d \in Devices |-> NewDeviceState]
    /\ realUp = [d \in Devices |-> FALSE]
    /\ opened = [d \in Devices |-> FALSE]
    /\ connResult = [d \in Devices |-> "pending"]
    /\ connectResult = "none"
    /\ exc = "none"
    /\ propagated = "none"
    /\ discRuns = 0
    /\ dcur = 0
    /\ discAttempted = {}
    /\ discRaised = {}
    /\ spc = [s \in Senders |-> "idle"]
    /\ scmd = [s \in Senders |-> NoCmd]
    /\ sres = [s \in Senders |-> NoResult]
    /\ running = FALSE
    /\ sessIn = <<>>
    /\ sessOut = <<>>
    /\ sdaemon = FALSE
    /\ csends = 0
    /\ contacts = 0
    /\ terminal = FALSE
    /\ sessLateWrites = 0

\* A Conductor that is never entered, for the specifications of the other parts.
InitCondUnused == InitCondPart /\ project = TRUE

\* `async with Conductor`: __aenter__ awaits connect_all, which starts one
\* _connect_device task per device and gathers them.
EnterConductor ==
    /\ cpc = "init"
    /\ cpc' = "connecting"
    /\ UNCHANGED <<project, devices, realUp, opened, connResult, connectResult, exc,
                   propagated, discRuns, dcur, discAttempted, discRaised, spc, scmd,
                   sres, running, sessIn, sessOut, sdaemon, csends, contacts,
                   terminal, sessLateWrites>>
    /\ UNCHANGED <<ev3vars, spikevars, intvars, linkvars, blevars>>

\* What can happen inside _connect_ev3 / _connect_spike.
\*   ssh_failed     EV3Interface.connect raised
\*   no_project     no project is configured for the EV3 device
\*   start_raised   reading the daemon script or session.start raised
\*   no_ready       session.start returned False: no READY line
\*   ready          session.start returned True
\*   raised         creating or connecting the Spike interface raised
\*   reported_false SpikeFastInterface.connect returned False
\*   ok             SpikeFastInterface.connect returned True
ConnectOutcomesOf(d) ==
    IF d = "ev3"
    THEN IF project THEN {"ssh_failed", "start_raised", "no_ready", "ready"}
                    ELSE {"ssh_failed", "no_project"}
    ELSE {"raised", "reported_false", "ok"}

\* DeviceState.connected after the platform connect of a device went as o:
\* _connect_ev3 and _connect_spike set it once session.start /
\* interface.connect came back, whatever these returned.
MarkedConnected(o) == o \in {"no_ready", "ready", "reported_false", "ok"}

\* Whether the device's link is open after the platform connect went as o.
\* EV3Interface.connect raises after the SSH connection is up when open_sftp or
\* the work directory fails; _connect_ev3 returns or raises after it without
\* closing anything; SpikeInterface.connect returns False with or without the
\* BLE link up.
LinkAfterConnect(o) ==
    CASE o \in {"no_project", "start_raised", "no_ready", "ready", "ok"} -> {TRUE}
      [] o \in {"ssh_failed", "reported_false"} -> {TRUE, FALSE}
      [] OTHER -> {FALSE}

\* One _connect_device task, run to completion.
ConnectDevice(d) ==
    /\ cpc = "connecting"
    /\ connResult[d] = "pending"
    /\ \E o \in ConnectOutcomesOf(d) :
         /\ devices' = [devices EXCEPT
                ![d].interface = o \notin {"ssh_failed", "raised"},
                ![d].session = (d = "ev3" /\ o \in {"no_ready", "ready"}),
                ![d].connected = MarkedConnected(o)]
         /\ realUp' = [realUp EXCEPT ![d] = o \in {"ready", "ok"}]
         /\ \E b \in LinkAfterConnect(o) : opened' = [opened EXCEPT ![d] = b]
         /\ connResult' = [connResult EXCEPT
                ![d] = IF MarkedConnected(o) THEN "true" ELSE "false"]
         /\ running' = IF d = "ev3" THEN o = "ready" ELSE running
         /\ sdaemon' = IF d = "ev3" THEN o = "ready" ELSE sdaemon
    /\ UNCHANGED <<project, cpc, connectResult, exc, propagated, discRuns, dcur,
                   discAttempted, discRaised, spc, scmd, sres, sessIn, sessOut,
                   csends, contacts, terminal, sessLateWrites>>
    /\ UNCHANGED <<ev3vars, spikevars, intvars, linkvars, blevars>>

\* connect_all after the gather: it counts the devices marked connected.
ConnectAllReturn ==
    /\ cpc = "connecting"
    /\ \A d \in Devices : connResult[d] # "pending"
    /\ connectResult' = IF \A d \in Devices : devices[d].connected
                        THEN "true" ELSE "false"
    /\ cpc' = "body"
    /\ UNCHANGED <<project, devices, realUp, opened, connResult, exc, propagated, discRuns,
                   dcur, discAttempted, discRaised, spc, scmd, sres, running,
                   sessIn, sessOut, sdaemon, csends, contacts, terminal,
                   sessLateWrites>>
    /\ UNCHANGED <<ev3vars, spikevars, intvars, linkvars, blevars>>

\* SIGINT while connect_all is awaited inside __aenter__: run_async_with_cleanup
\* cancels the main task; `async with` was not entered yet, so __aexit__ is not
\* called and the CancelledError leaves the block.
InterruptConnecting ==
    /\ cpc = "connecting"
    /\ cpc' = "exited"
    /\ exc' = "cancelled"
    /\ propagated' = "cancelled"
    /\ UNCHANGED <<project, devices, realUp, opened, connResult, connectResult, discRuns,
                   dcur, discAttempted, discRaised, spc, scmd, sres, running,
                   sessIn, sessOut, sdaemon, csends, contacts, terminal,
                   sessLateWrites>>
    /\ UNCHANGED <<ev3vars, spikevars, intvars, linkvars, blevars>>

\* The body of the `async with` block ends: it ran to its end, raised, or was
\* cancelled by SIGINT between two sends.  __aexit__ then awaits disconnect_all.
LeaveBody ==
    /\ cpc = "body"
    /\ \A s \in Senders : spc[s] = "idle"
    /\ \E e \in {"none", "error", "cancelled"} : exc' = e
    /\ cpc' = "disconnecting"
    /\ discRuns' = discRuns + 1
    /\ dcur' = 1
    /\ UNCHANGED <<project, devices, realUp, opened, connResult, connectResult, propagated,
                   discAttempted, discRaised, spc, scmd, sres, running, sessIn,
                   sessOut, sdaemon, csends, contacts, terminal, sessLateWrites>>
    /\ UNCHANGED <<ev3vars, spikevars, intvars, linkvars, blevars>>

\* Where disconnect_all's loop goes on after _disconnect_device raised at
\* position i, had the error been left to end the loop.
AfterDisconnectErrorAbort(i) == Len(DeviceOrder) + 1

\* Where disconnect_all's loop goes on after _disconnect_device raised at
\* position i: `except Exception` prints the error and the loop continues.
AfterDisconnectError(i) == i + 1

\* The ways _disconnect_device can end.  session.stop swallows its errors and
\* SpikeInterface.disconnect catches every Exception; EV3Interface.disconnect
\* closes the SFTP and SSH handles unprotected.
DisconnectOutcomes(d) == IF d = "ev3" THEN {"ok", "raise"} ELSE {"ok"}

\* Whether the link of d is open after _disconnect_device returned:
\* EV3Interface.disconnect closes the SFTP and SSH handles;
\* SpikeInterface.disconnect leaves a session alone that is not
\* connected; there, client.disconnect() is skipped when stop_notify raises.
LinkAfterDisconnect(d) ==
    IF d = "ev3" THEN {FALSE}
    ELSE IF realUp[d] THEN {FALSE, TRUE} ELSE {opened[d]}

\* One iteration of disconnect_all's loop.
DisconnectDevice ==
    /\ cpc = "disconnecting"
    /\ dcur <= Len(DeviceOrder)
    /\ LET d == DeviceOrder[dcur] IN
       IF ~devices[d].connected
       THEN /\ dcur' = dcur + 1
            /\ UNCHANGED <<devices, realUp, opened, discAttempted, discRaised, running,
                           sessIn, sessOut, sdaemon>>
       ELSE /\ discAttempted' = discAttempted \cup {d}
            /\ IF d = "ev3"
               THEN \* session.stop: quit if running, then close the channel
                    /\ running' = FALSE
                    /\ sessIn' = <<>>
                    /\ sessOut' = <<>>
                    /\ sdaemon' = FALSE
               ELSE UNCHANGED <<running, sessIn, sessOut, sdaemon>>
            /\ \E o \in DisconnectOutcomes(d) :
                 IF o = "ok"
                 THEN /\ devices' = [devices EXCEPT ![d].connected = FALSE]
                      /\ realUp' = [realUp EXCEPT ![d] = FALSE]
                      /\ \E b \in LinkAfterDisconnect(d) :
                            opened' = [opened EXCEPT ![d] = b]
                      /\ dcur' = dcur + 1
                      /\ UNCHANGED discRaised
                 ELSE /\ discRaised' = discRaised \cup {d}
                      /\ dcur' = AfterDisconnectError(dcur)
                      /\ \E b \in {opened[d], FALSE} :
                            opened' = [opened EXCEPT ![d] = b]
                      /\ UNCHANGED <<devices, realUp>>
    /\ UNCHANGED <<project, cpc, connResult, connectResult, exc, propagated,
                   discRuns, spc, scmd, sres, csends, contacts, terminal,
                   sessLateWrites>>
    /\ UNCHANGED <<ev3vars, spikevars, intvars, linkvars, blevars>>

\* disconnect_all returned; __aexit__ returns False, so whatever ended the body
\* leaves the block.
ExitConductor ==
    /\ cpc = "disconnecting"
    /\ dcur > Len(DeviceOrder)
    /\ cpc' = "exited"
    /\ propagated' = exc
    /\ UNCHANGED <<project, devices, realUp, opened, connResult, connectResult, exc,
                   discRuns, dcur, discAttempted, discRaised, spc, scmd, sres,
                   running, sessIn, sessOut, sdaemon, csends, contacts, terminal,
                   sessLateWrites>>
    /\ UNCHANGED <<ev3vars, spikevars, intvars, linkvars, blevars>>

\* DeviceState.latency_ms after a platform send, had the latency been recorded
\* before the outcome is known.
RecordedLatencyAlways(old, ok, measured) == measured

\* DeviceState.latency_ms after a platform send: `state.latency_ms = latency`
\* is reached only when the platform send did not raise.
RecordedLatency(old, ok, measured) == IF ok THEN measured ELSE old

\* Conductor.send returns to caller s.  The latency measured by call number n
\* is represented by n, so that every successful send records a new value.
FinishSend(s, ok, why, reply) ==
    LET c == scmd[s] IN
    /\ devices' = [devices EXCEPT
           ![c.device].latency_ms = RecordedLatency(@, ok, c.n)]
    /\ sres' = [sres EXCEPT ![s] =
           [n |-> c.n, device |-> c.device, ok |-> ok,
            latency |-> IF ok THEN c.n ELSE 0, raised |-> why, reply |-> reply]]
    /\ spc' = [spc EXCEPT ![s] = "idle"]
    /\ scmd' = [scmd EXCEPT ![s] = NoCmd]

\* Caller s calls Conductor.send(name, action).  An unknown or not-connected
\* device is answered at once; a Spike send (fast_action) is one await; an EV3
\* send goes to session.send on an executor thread.
CSend(s) ==
    /\ cpc = "body"
    /\ spc[s] = "idle"
    /\ csends < MaxSends
    /\ csends' = csends + 1
    /\ \E name \in Devices \cup {Unregistered} :
         IF name \notin Devices \/ ~devices[name].connected
         THEN /\ sres' = [sres EXCEPT ![s] =
                     [n |-> csends + 1, device |-> name, ok |-> FALSE,
                      latency |-> 0, raised |-> "none", reply |-> 0]]
              /\ UNCHANGED <<devices, spc, scmd, contacts>>
         ELSE /\ contacts' = contacts + 1
              /\ IF name = "ev3"
                 THEN /\ \E c \in Commands :
                           scmd' = [scmd EXCEPT ![s] =
                               [n |-> csends + 1, device |-> name, cmd |-> c]]
                      /\ spc' = [spc EXCEPT ![s] = "sess_entry"]
                      /\ UNCHANGED <<devices, sres>>
                 ELSE \E ok \in BOOLEAN :
                        /\ devices' = [devices EXCEPT ![name].latency_ms =
                               RecordedLatency(@, ok, csends + 1)]
                        /\ sres' = [sres EXCEPT ![s] =
                               [n |-> csends + 1, device |-> name, ok |-> ok,
                                latency |-> IF ok THEN csends + 1 ELSE 0,
                                raised |-> IF ok THEN "none" ELSE "spike",
                                reply |-> 0]]
                        /\ UNCHANGED <<spc, scmd>>
    /\ UNCHANGED <<project, cpc, realUp, opened, connResult, connectResult, exc,
                   propagated, discRuns, dcur, discAttempted, discRaised, running,
                   sessIn, sessOut, sdaemon, terminal, sessLateWrites>>
    /\ UNCHANGED <<ev3vars, spikevars, intvars, linkvars, blevars>>

\* EV3DaemonSession.send up to the flush: the _running check, then the write.
\* Writing to a daemon that has exited is lost or raises.
SessWrite(s) ==
    /\ spc[s] = "sess_entry"
    /\ IF ~running
       THEN /\ FinishSend(s, FALSE, "not_running", 0)
            /\ UNCHANGED <<running, sessIn, sessLateWrites>>
       ELSE \E w \in (IF sdaemon THEN {"ok"} ELSE {"ok", "raise"}) :
              IF w = "ok"
              THEN /\ sessIn' = IF sdaemon
                                THEN Append(sessIn, [id |-> scmd[s].n,
                                                     cmd |-> scmd[s].cmd])
                                ELSE sessIn
                   /\ sessLateWrites' =
                          IF terminal THEN sessLateWrites + 1 ELSE sessLateWrites
                   /\ spc' = [spc EXCEPT ![s] = "sess_read"]
                   /\ UNCHANGED <<devices, sres, scmd, running>>
              ELSE /\ running' = FALSE
                   /\ FinishSend(s, FALSE, "io", 0)
                   /\ UNCHANGED <<sessIn, sessLateWrites>>
    /\ UNCHANGED <<project, cpc, realUp, opened, connResult, connectResult, exc,
                   propagated, discRuns, dcur, discAttempted, discRaised, sessOut,
                   sdaemon, csends, contacts, terminal>>
    /\ UNCHANGED <<ev3vars, spikevars, intvars, linkvars, blevars>>

\* What readline gives at the end of the daemon's output.
EofLine == [id |-> 0, kind |-> "EOF"]

\* The replies that end the session, had only the empty reply been checked.
ReplyEndsSessionEmptyOnly(kind, cmd) == kind = "EOF" /\ cmd \notin {"quit", "exit"}

\* The replies after which EV3DaemonSession.send clears _running and raises.
ReplyEndsSession(kind, cmd) ==
    \/ kind = "EOF" /\ cmd \notin {"quit", "exit"}
    \/ kind = "QUIT"

\* EV3DaemonSession.send from readline on, on the thread of caller s.  readline
\* blocks until a line is there or the daemon's output has ended.
SessRead(s) ==
    /\ spc[s] = "sess_read"
    /\ sessOut # <<>> \/ ~sdaemon
    /\ LET line == IF sessOut # <<>> THEN Head(sessOut) ELSE EofLine
           cmd == scmd[s].cmd
       IN /\ sessOut' = IF sessOut # <<>> THEN Tail(sessOut) ELSE sessOut
          /\ terminal' = (\/ terminal
                          \/ line.kind = "QUIT"
                          \/ line.kind = "EOF" /\ cmd \notin {"quit", "exit"})
          /\ IF ReplyEndsSession(line.kind, cmd)
             THEN /\ running' = FALSE
                  /\ FinishSend(s, FALSE,
                                IF line.kind = "QUIT" THEN "quit" ELSE "empty", 0)
             ELSE /\ FinishSend(s, TRUE, "none", line.id)
                  /\ UNCHANGED running
    /\ UNCHANGED <<project, cpc, realUp, opened, connResult, connectResult, exc,
                   propagated, discRuns, dcur, discAttempted, discRaised, sessIn,
                   sdaemon, csends, contacts, sessLateWrites>>
    /\ UNCHANGED <<ev3vars, spikevars, intvars, linkvars, blevars>>

\* The daemon's command loop: it answers the oldest command with one line, or
\* leaves the loop without a reply when the command is quit.
DaemonAnswer ==
    /\ sdaemon
    /\ sessIn # <<>>
    /\ LET c == Head(sessIn) IN
       IF c.cmd \in {"quit", "exit"}
       THEN /\ sdaemon' = FALSE
            /\ sessIn' = <<>>
            /\ UNCHANGED sessOut
       ELSE /\ sessOut' = Append(sessOut, [id |-> c.id, kind |-> "OK"])
            /\ sessIn' = Tail(sessIn)
            /\ UNCHANGED sdaemon
    /\ UNCHANGED <<project, cpc, devices, realUp, opened, connResult, connectResult, exc,
                   propagated, discRuns, dcur, discAttempted, discRaised, spc, scmd,
                   sres, running, csends, contacts, terminal, sessLateWrites>>
    /\ UNCHANGED <<ev3vars, spikevars, intvars, linkvars, blevars>>

\* The daemon stops by itself while the body runs: the back button makes it
\* print "QUIT: back button" and exit; a lost connection ends it silently.
DaemonStops ==
    /\ cpc = "body"
    /\ sdaemon
    /\ sdaemon' = FALSE
    /\ sessIn' = <<>>
    /\ \E notice \in BOOLEAN :
         sessOut' = IF notice THEN Append(sessOut, [id |-> 0, kind |-> "QUIT"])
                              ELSE sessOut
    /\ UNCHANGED <<project, cpc, devices, realUp, opened, connResult, connectResult, exc,
                   propagated, discRuns, dcur, discAttempted, discRaised, spc, scmd,
                   sres, running, csends, contacts, terminal, sessLateWrites>>
    /\ UNCHANGED <<ev3vars, spikevars, intvars, linkvars, blevars>>

(***************************************************************************)
(* Part VI.  The life cycle of a Spike session: SpikeInterface.connect,    *)
(* disconnect, set_console_callback and the notification handler _on_data  *)
(* (platforms/spike_prime/sp_interface.py).  One coroutine ("main") calls  *)
(* connect() on a session that is not connected and disconnect() at any    *)
(* time, one call after the other.                                         *)
(***************************************************************************)

\* Most connect() and disconnect() calls on one session.
MaxSessionCalls == 3
\* Most console frames the program on the hub prints.
MaxNotes == 1

\* The number of notifications the link delivers one frame in: the whole frame
\* in one, or the frame split in two.
Splits == {1, 2}

\* Callbacks handed to set_console_callback.
Callbacks == {"cb1", "cb2"}

\* The steps of a connect() that went through.
Handshake == <<"open", "subscribe", "info_sent", "info_received">>

NoCall == [name |-> "none", result |-> FALSE, was |-> FALSE, tried |-> {}, n |-> 0]

NoFrame == [id |-> None, parts |-> 0, match |-> FALSE, resolved |-> FALSE,
            registered |-> None, to |-> None]

InitConnPart ==
    /\ client = "none"
    /\ notifying = FALSE
    /\ sconnected = FALSE
    /\ info_response = None
    /\ kpc = "idle"
    /\ csteps = <<>>
    /\ leaked = 0
    /\ air = <<>>
    /\ hubIn = <<>>
    /\ lastCall = NoCall
    /\ lastResp = NoFrame
    /\ lastNote = NoFrame
    /\ ncalls = 0
    /\ nnotes = 0

\* A session on which connect() went through.
InitConnected ==
    /\ client = "open"
    /\ notifying = TRUE
    /\ sconnected = TRUE
    /\ info_response = "InfoResponse"
    /\ kpc = "idle"
    /\ csteps = Handshake
    /\ leaked = 0
    /\ air = <<>>
    /\ hubIn = <<>>
    /\ lastCall = [name |-> "connect", result |-> TRUE, was |-> FALSE, tried |-> {},
                   n |-> 1]
    /\ lastResp = [NoFrame EXCEPT !.id = "InfoResponse", !.parts = 1, !.match = TRUE,
                                  !.resolved = TRUE]
    /\ lastNote = NoFrame
    /\ ncalls = 1
    /\ nnotes = 0

\* The fields of the session that Part VI does not use.
SessionRest ==
    <<max_chunk_size, tpc, op, script, awaiting, hubq, oplog, ops, timedOut, hubProg,
      signal_queue, completed, loop_i, sigTimedOut, received, cbLog, cbDone>>

\* The call in progress returns: connect() its result, disconnect() None.
\* was: the session was connected when the call began; tried: the csteps of
\* disconnect() the call attempted.
Return(name, result, was, did) ==
    /\ kpc' = "idle"
    /\ lastCall' = [name |-> name, result |-> result, was |-> was, tried |-> did,
                    n |-> ncalls]

\* _send_request, lines 315-316, by the call in progress: the slot is
\* registered with a fresh Future, then the frame is written.
Register(msg) ==
    /\ pending_response' = [id |-> ResponseId(msg), fut |-> "main"]
    /\ futState' = [futState EXCEPT !["main"] = "pending"]
    /\ futResult' = [futResult EXCEPT !["main"] = NoMessage]

\* A connect() that marks the session connected as soon as it subscribed.
ConnectedAfterStepEarly(step, was) == step \in {"subscribe", "info_received"} \/ was

\* self._connected after a step of connect(): line 250 sets it once the Info
\* response is in; no other line of connect() assigns it.
ConnectedAfterStep(step, was) == step = "info_received" \/ was

\* connect(), lines 238-239: a new BleakClient replaces the one the session
\* held, then client.connect(timeout=10.0) opens the link or raises.
SConnect ==
    /\ kpc = "idle"
    /\ ~sconnected
    /\ ncalls < MaxSessionCalls
    /\ ncalls' = ncalls + 1
    /\ leaked' = IF client = "open" THEN leaked + 1 ELSE leaked
    /\ notifying' = FALSE
    /\ air' = <<>>
    /\ hubIn' = <<>>
    /\ \/ /\ client' = "open"
          /\ csteps' = <<"open">>
          /\ sconnected' = ConnectedAfterStep("open", sconnected)
          /\ kpc' = "c_opened"
          /\ UNCHANGED lastCall
       \/ \* client.connect raised: except Exception, return False
          /\ client' = "closed"
          /\ csteps' = <<>>
          /\ kpc' = "idle"
          /\ lastCall' = [name |-> "connect", result |-> FALSE, was |-> FALSE,
                          tried |-> {}, n |-> ncalls + 1]
          /\ UNCHANGED sconnected
    /\ UNCHANGED <<info_response, lastResp, lastNote, nnotes>>
    /\ UNCHANGED <<pending_response, futState, futResult, console_callback, SessionRest>>
    /\ UNCHANGED <<ev3vars, linkvars, condvars, upvars, fastvars, libvars>>

\* connect(), lines 241-245: the service and its characteristics are looked up
\* and start_notify(self._tx_char, self._on_data) subscribes; either may raise.
SConnSubscribe ==
    /\ kpc = "c_opened"
    /\ \/ /\ notifying' = TRUE
          /\ csteps' = Append(csteps, "subscribe")
          /\ sconnected' = ConnectedAfterStep("subscribe", sconnected)
          /\ kpc' = "c_subscribed"
          /\ UNCHANGED lastCall
       \/ /\ Return("connect", FALSE, FALSE, {})
          /\ UNCHANGED <<notifying, csteps, sconnected>>
    /\ UNCHANGED <<client, info_response, leaked, air, hubIn, lastResp, lastNote, ncalls,
                   nnotes>>
    /\ UNCHANGED <<pending_response, futState, futResult, console_callback, SessionRest>>
    /\ UNCHANGED <<ev3vars, linkvars, condvars, upvars, fastvars, libvars>>

\* connect(), line 248: _send_request(InfoRequest(), InfoResponse) up to its
\* wait; a write that raises ends connect() with False.
SConnInfoSend ==
    /\ kpc = "c_subscribed"
    /\ Register("InfoRequest")
    /\ \/ /\ hubIn' = Append(hubIn, "InfoRequest")
          /\ csteps' = Append(csteps, "info_sent")
          /\ sconnected' = ConnectedAfterStep("info_sent", sconnected)
          /\ kpc' = "c_info_wait"
          /\ UNCHANGED lastCall
       \/ /\ Return("connect", FALSE, FALSE, {})
          /\ UNCHANGED <<hubIn, csteps, sconnected>>
    /\ UNCHANGED <<client, notifying, info_response, leaked, air, lastResp, lastNote,
                   ncalls, nnotes>>
    /\ UNCHANGED <<console_callback, SessionRest>>
    /\ UNCHANGED <<ev3vars, linkvars, condvars, upvars, fastvars, libvars>>

\* The wait of the request in progress ends with the response: connect(),
\* lines 248-252, stores it, sets _connected and returns True; disconnect()
\* goes on to close the link.
SAwaitDone ==
    /\ kpc \in {"c_info_wait", "d_stop_wait"}
    /\ futState["main"] = "done"
    /\ IF kpc = "c_info_wait"
       THEN /\ info_response' = futResult["main"].msg
            /\ csteps' = Append(csteps, "info_received")
            /\ sconnected' = ConnectedAfterStep("info_received", sconnected)
            /\ Return("connect", TRUE, FALSE, {})
       ELSE /\ kpc' = "d_close"
            /\ UNCHANGED <<info_response, csteps, sconnected, lastCall>>
    /\ UNCHANGED <<client, notifying, leaked, air, hubIn, lastResp, lastNote, ncalls,
                   nnotes>>
    /\ UNCHANGED <<pending_response, futState, futResult, console_callback, SessionRest>>
    /\ UNCHANGED <<ev3vars, linkvars, condvars, upvars, fastvars, libvars>>

\* wait_for timed out: the future is cancelled and TimeoutError raised.
\* connect() catches it and returns False; disconnect() ignores it.
SAwaitTimeout ==
    /\ kpc \in {"c_info_wait", "d_stop_wait"}
    /\ futState["main"] = "pending"
    /\ futState' = [futState EXCEPT !["main"] = "cancelled"]
    /\ IF kpc = "c_info_wait"
       THEN Return("connect", FALSE, FALSE, {})
       ELSE /\ kpc' = "d_close"
            /\ UNCHANGED lastCall
    /\ UNCHANGED <<client, notifying, sconnected, info_response, csteps, leaked, air,
                   hubIn, lastResp, lastNote, ncalls, nnotes>>
    /\ UNCHANGED <<pending_response, futResult, console_callback, SessionRest>>
    /\ UNCHANGED <<ev3vars, linkvars, condvars, upvars, fastvars, libvars>>

\* disconnect(), lines 260-268: on a session that holds a client and is marked
\* connected, ProgramFlow(stop=True, slot) is requested first, any error
\* ignored; otherwise only line 276 runs.
SDisconnect ==
    /\ kpc = "idle"
    /\ ncalls < MaxSessionCalls
    /\ ncalls' = ncalls + 1
    /\ IF client # "none" /\ sconnected
       THEN /\ Register("ProgramFlow")
            /\ \/ /\ hubIn' = Append(hubIn, "ProgramFlow")
                  /\ kpc' = "d_stop_wait"
               \/ \* the write raised: except: pass
                  /\ kpc' = "d_close"
                  /\ UNCHANGED hubIn
            /\ UNCHANGED <<sconnected, lastCall>>
       ELSE /\ sconnected' = FALSE
            /\ kpc' = "idle"
            /\ lastCall' = [name |-> "disconnect", result |-> TRUE, was |-> FALSE,
                            tried |-> {}, n |-> ncalls + 1]
            /\ UNCHANGED <<pending_response, futState, futResult, hubIn>>
    /\ UNCHANGED <<client, notifying, info_response, csteps, leaked, air, lastResp,
                   lastNote, nnotes>>
    /\ UNCHANGED <<console_callback, SessionRest>>
    /\ UNCHANGED <<ev3vars, linkvars, condvars, upvars, fastvars, libvars>>

\* disconnect(), lines 270-276: stop_notify and client.disconnect() in one try
\* block whose errors are ignored, then _connected = False.  When stop_notify
\* raises, client.disconnect() is not reached.
SDiscClose ==
    /\ kpc = "d_close"
    /\ \/ /\ notifying' = FALSE
          /\ \/ client' = "closed" /\ air' = <<>> /\ hubIn' = <<>>
             \/ \* client.disconnect() raised
                UNCHANGED <<client, air, hubIn>>
          /\ Return("disconnect", TRUE, TRUE, {"stop", "unsubscribe", "close"})
       \/ \* stop_notify raised
          /\ Return("disconnect", TRUE, TRUE, {"stop", "unsubscribe"})
          /\ UNCHANGED <<notifying, client, air, hubIn>>
    /\ sconnected' = FALSE
    /\ UNCHANGED <<info_response, csteps, leaked, lastResp, lastNote, ncalls, nnotes>>
    /\ UNCHANGED <<pending_response, futState, futResult, console_callback, SessionRest>>
    /\ UNCHANGED <<ev3vars, linkvars, condvars, upvars, fastvars, libvars>>

\* set_console_callback(callback), line 301; None clears the callback.
SetConsoleCallback ==
    /\ \E cb \in (Callbacks \cup {None}) \ {console_callback} :
          console_callback' = cb
    /\ UNCHANGED <<pending_response, futState, futResult, SessionRest>>
    /\ UNCHANGED <<ev3vars, linkvars, condvars, blevars>>

\* The frame of message id as the link delivers it: in n notifications, the
\* last of which ends with the frame delimiter.
Fragments(id, n) == [i \in 1..n |-> [id |-> id, part |-> i, of |-> n]]

\* The hub answers the oldest request it has; the response frame reaches the
\* host in one notification or split over several.
HubAnswers ==
    /\ hubIn # <<>>
    /\ client = "open" /\ notifying
    /\ \E n \in Splits : air' = air \o Fragments(ResponseId(Head(hubIn)), n)
    /\ hubIn' = Tail(hubIn)
    /\ UNCHANGED <<client, notifying, sconnected, info_response, kpc, csteps, leaked,
                   lastCall, lastResp, lastNote, ncalls, nnotes>>
    /\ UNCHANGED <<pending_response, futState, futResult, console_callback, SessionRest>>
    /\ UNCHANGED <<ev3vars, linkvars, condvars, upvars, fastvars, libvars>>

\* The program running on the hub prints: a console frame is notified.
HubPrints ==
    /\ client = "open" /\ notifying
    /\ nnotes < MaxNotes
    /\ nnotes' = nnotes + 1
    /\ \E n \in Splits : air' = air \o Fragments("ConsoleNotification", n)
    /\ UNCHANGED <<client, notifying, sconnected, info_response, kpc, csteps, leaked,
                   hubIn, lastCall, lastResp, lastNote, ncalls>>
    /\ UNCHANGED <<pending_response, futState, futResult, console_callback, SessionRest>>
    /\ UNCHANGED <<ev3vars, linkvars, condvars, upvars, fastvars, libvars>>

\* line 281: a notification that does not end with the delimiter 0x02 is
\* returned from at once; nothing of it is kept.
Delimited(f) == f.part = f.of

\* lines 284-286: the notification alone is unpacked and deserialized.  It
\* yields the message that was sent when it holds the whole frame; the tail of
\* a split frame does not (the bytes before it are gone), whatever it decodes
\* to is dropped by `except: pass` or is no message anybody waits for.
Decodes(f) == f.of = 1

\* _on_data(_, data) for the next notification of the link.
OnNotification ==
    /\ air # <<>>
    /\ air' = Tail(air)
    /\ LET f == Head(air)
           isResp == f.id # "ConsoleNotification"
           match == /\ pending_response.id # None
                    /\ f.id = pending_response.id
           settle == Delimited(f) /\ Decodes(f) /\ match /\ futState["main"] = "pending"
           deliver == /\ Delimited(f) /\ Decodes(f) /\ ~isResp
                      /\ console_callback # None
       IN  /\ IF settle
              THEN /\ futState' = [futState EXCEPT !["main"] = "done"]
                   /\ futResult' = [futResult EXCEPT !["main"] =
                                       [NoMessage EXCEPT !.msg = f.id]]
              ELSE UNCHANGED <<futState, futResult>>
           /\ lastResp' =
                 IF Delimited(f) /\ isResp
                 THEN [NoFrame EXCEPT !.id = f.id, !.parts = f.of,
                                      !.match = (match /\ futState["main"] = "pending"),
                                      !.resolved = settle]
                 ELSE lastResp
           /\ lastNote' =
                 IF Delimited(f) /\ ~isResp
                 THEN [NoFrame EXCEPT !.id = f.id, !.parts = f.of,
                                      !.registered = console_callback,
                                      !.to = IF deliver THEN console_callback ELSE None]
                 ELSE lastNote
    /\ UNCHANGED <<client, notifying, sconnected, info_response, kpc, csteps, leaked,
                   hubIn, lastCall, ncalls, nnotes>>
    /\ UNCHANGED <<pending_response, console_callback, SessionRest>>
    /\ UNCHANGED <<ev3vars, linkvars, condvars, upvars, fastvars, libvars>>

(***************************************************************************)
(* Part VII.  The bytes of an upload: the chunk loop of upload_and_run /   *)
(* _upload_to_slot with its running CRC, and the packets _send_message     *)
(* writes (platforms/spike_prime/sp_interface.py, sp_fast.py).  crc and    *)
(* cobs come from the protocol examples the module loads at import.        *)
(***************************************************************************)

\* Longest program uploaded, in bytes.
MaxBytes == 7
\* Largest max_packet_size the hub reports.
MaxPacket == 3

\* The frame delimiter _on_data tests for (0x02).
Delimiter == 2

\* Byte values the programs are made of: the delimiter and a plain byte.
Bytes == {Delimiter, 5}

\* Python's s[a:b] for 0 <= a <= b.
Slice(s, a, b) == SubSeq(s, a + 1, IF b < Len(s) THEN b ELSE Len(s))

\* The concatenation of a sequence of sequences.
RECURSIVE Concat(_)
Concat(ss) == IF ss = <<>> THEN <<>> ELSE Head(ss) \o Concat(Tail(ss))

\* crc(data, seed): the checksum of seed's data followed by data, computed
\* byte by byte from the carried value.
RECURSIVE Crc(_, _)
Crc(data, seed) ==
    IF data = <<>> THEN seed
    ELSE Crc(Tail(data), (seed * 5 + Head(data) + 1) % 251)

\* A pack that appends the delimiter without stuffing the payload.
PackUnstuffed(payload) == payload \o <<Delimiter>>

\* cobs.pack(payload): the payload byte-stuffed so that the delimiter does not
\* occur in it, followed by the delimiter.
RECURSIVE Pack(_)
Pack(payload) ==
    IF payload = <<>> THEN <<Delimiter>>
    ELSE (IF Head(payload) <= Delimiter
          THEN <<1, Head(payload) + 3>> ELSE <<Head(payload)>>) \o Pack(Tail(payload))

\* _send_message, line 307: the packet size is the reported one once the Info
\* response is known.
PacketSize(fr) == IF info_response # None THEN max_packet_size ELSE Len(fr)

\* A _send_message that writes the frame in one piece.
PacketsWhole(fr, size) == <<fr>>

\* _send_message, lines 309-311: for i in range(0, len(frame), packet_size):
\* packet = frame[i : i + packet_size], each written in turn.
Packets(fr, size) ==
    [k \in 1..NumChunks(Len(fr), size) |-> Slice(fr, (k - 1) * size, k * size)]

\* A chunk loop that checksums every chunk on its own.
NextRunningCrcNoCarry(chunk, carried) == Crc(chunk, 0)

\* chunk loop: running_crc = crc(chunk, running_crc)
NextRunningCrc(chunk, carried) == Crc(chunk, carried)

InitUploadPart ==
    /\ program \in SeqsUpTo(Bytes, MaxBytes)
    /\ max_packet_size \in 1..MaxPacket
    /\ upc = "idle"
    /\ upi = 0
    /\ running_crc = 0
    /\ program_crc = 0
    /\ chunks = <<>>
    /\ frame = <<>>
    /\ writes = <<>>

InitUploadUnused ==
    /\ InitUploadPart
    /\ program = <<>>
    /\ max_packet_size = MaxPacket

\* _send_message of a message with the given payload, as Part VII sees it.
SendFrame(payload) ==
    /\ frame' = Pack(payload)
    /\ writes' = Packets(Pack(payload), PacketSize(Pack(payload)))

\* program_crc = crc(program) and the StartFileUpload request that announces
\* it; running_crc = 0 before the loop.
UStart ==
    /\ upc = "idle"
    /\ program_crc' = Crc(program, 0)
    /\ SendFrame(<<Crc(program, 0)>>)
    /\ running_crc' = 0
    /\ upi' = 0
    /\ chunks' = <<>>
    /\ upc' = "loop"
    /\ UNCHANGED <<program, max_packet_size>>
    /\ UNCHANGED <<ev3vars, spikevars, intvars, linkvars, condvars, connvars, fastvars, libvars>>

\* One iteration of `for i in range(0, len(program), chunk_size)`: the chunk
\* is cut, the running CRC carried on, TransferChunk(running_crc, chunk) sent.
\* A request that fails ends the upload.
UChunk ==
    /\ upc = "loop"
    /\ upi < Len(program)
    /\ LET chunk == Slice(program, upi, upi + max_chunk_size)
           crc == NextRunningCrc(chunk, running_crc)
       IN  /\ running_crc' = crc
           /\ chunks' = Append(chunks, [running_crc |-> crc, payload |-> chunk])
           /\ SendFrame(<<crc>> \o chunk)
    /\ upi' = upi + max_chunk_size
    /\ upc' \in {"loop", "failed"}
    /\ UNCHANGED <<program, max_packet_size, program_crc>>
    /\ UNCHANGED <<ev3vars, spikevars, intvars, linkvars, condvars, connvars, fastvars, libvars>>

\* The range is exhausted: the loop is left.
UDone ==
    /\ upc = "loop"
    /\ upi >= Len(program)
    /\ upc' = "done"
    /\ UNCHANGED <<program, max_packet_size, upi, running_crc, program_crc, chunks, frame,
                   writes>>
    /\ UNCHANGED <<ev3vars, spikevars, intvars, linkvars, condvars, connvars, fastvars, libvars>>

(***************************************************************************)
(* Part VIII.  SpikeFastInterface.connect(preload) and fast_action         *)
(* (platforms/spike_prime/sp_fast.py): the slot cache _action_slots, the   *)
(* flag _programs_uploaded, and the messages of one fast_action call.      *)
(***************************************************************************)

\* Two of the fifteen names of ACTION_PROGRAMS.
PredefinedActions == {"beep_high", "happy"}

\* Names fast_action is called with: the predefined ones, a beep_<frequency>
\* name that is not predefined, and a name nothing is known about.
ActionNames == PredefinedActions \cup {"beep_880", "wave"}

\* ACTION_SLOTS[name]: the position of the name in ACTION_PROGRAMS.
ActionSlot(a) == IF a = "beep_high" THEN 0 ELSE 6

\* action.startswith("beep_")
StartsWithBeep(a) == a \in {"beep_high", "beep_880"}

\* A _run_single_action that uploads whatever name it is given.
HasProgramAny(a) == TRUE

\* _run_single_action, lines 300-313: the program of a predefined name, a
\* generated beep for any other name that starts with "beep_", else ValueError.
HasProgram(a) == a \in PredefinedActions \/ StartsWithBeep(a)

\* Length of the program _run_single_action uploads, in the unit
\* max_chunk_size counts.
ActionProgramLen(a) == IF a = "happy" THEN 4 ELSE 3

\* _run_single_action: upload to slot 18, then a fire-and-forget ProgramFlow.
RunSingleAction(a) ==
    UploadToSlot(SequenceSlot, ActionProgramLen(a)) \o <<FlowStartMsg(SequenceSlot, 0)>>

\* fast_action(action, wait_response), lines 274-292, when it does not raise.
FastAction(a, wait) ==
    IF ~programs_uploaded THEN RunSingleAction(a)
    ELSE <<IF wait THEN FlowStartReq(ActionSlot(a)) ELSE FlowStartMsg(ActionSlot(a), 0)>>

\* The ValueError("Unknown action") of line 279 or line 313.
UnknownAction(a) ==
    IF ~programs_uploaded THEN ~HasProgram(a) ELSE a \notin action_slots

NoFastCall ==
    [action |-> None, wait |-> FALSE, slots |-> {}, uploaded |-> FALSE,
     pending |-> [id |-> None, fut |-> None], error |-> None]

InitFastPart ==
    /\ programs_uploaded = FALSE
    /\ action_slots = {}
    /\ fcall = NoFastCall

\* The last request of a call that went through was answered: what it leaves
\* in the pending slot.
Answered(msg) ==
    /\ pending_response' = [id |-> ResponseId(msg), fut |-> "main"]
    /\ futState' = [futState EXCEPT !["main"] = "done"]
    /\ futResult' = [futResult EXCEPT !["main"] = NoMessage]

\* connect(preload) that goes through, as a whole: super().connect() returns
\* True; with preload every program of ACTION_PROGRAMS is uploaded to its slot,
\* the names whose upload did not raise (ok) are entered in _action_slots and
\* _programs_uploaded is set; without preload line 209 resets the flag and
\* _action_slots is left as it is.  (A connect() that returns False changes
\* neither.)
FConnect ==
    /\ Free("main")
    /\ ~sconnected
    /\ ncalls < MaxSessionCalls
    /\ ncalls' = ncalls + 1
    /\ sconnected' = TRUE
    /\ client' = "open"
    /\ notifying' = TRUE
    /\ info_response' = "InfoResponse"
    /\ csteps' = Handshake
    /\ leaked' = IF client = "open" THEN leaked + 1 ELSE leaked
    /\ lastCall' = [name |-> "connect", result |-> TRUE, was |-> FALSE, tried |-> {},
                    n |-> ncalls + 1]
    /\ \E preload \in BOOLEAN, ok \in SUBSET PredefinedActions :
          /\ ~preload => ok = {}
          /\ action_slots' = action_slots \cup ok
          /\ programs_uploaded' = preload
          /\ Answered(IF preload THEN "TransferChunk" ELSE "InfoRequest")
    /\ fcall' = NoFastCall
    /\ timedOut' = FALSE
    /\ UNCHANGED <<max_chunk_size, tpc, op, script, awaiting, hubq, oplog, ops, hubProg>>
    /\ UNCHANGED <<kpc, air, hubIn, lastResp, lastNote, nnotes>>
    /\ UNCHANGED <<ev3vars, intvars, linkvars, condvars, upvars, libvars>>

\* disconnect() that goes through, as a whole: the running program is stopped,
\* the link closed.  Neither _programs_uploaded nor _action_slots is touched.
FDisconnect ==
    /\ Free("main")
    /\ sconnected
    /\ ncalls < MaxSessionCalls
    /\ ncalls' = ncalls + 1
    /\ sconnected' = FALSE
    /\ client' = "closed"
    /\ notifying' = FALSE
    /\ lastCall' = [name |-> "disconnect", result |-> TRUE, was |-> TRUE,
                    tried |-> {"stop", "unsubscribe", "close"}, n |-> ncalls + 1]
    /\ Answered("ProgramFlow")
    /\ hubq' = <<>>
    /\ hubProg' = NoProgram
    /\ fcall' = NoFastCall
    /\ timedOut' = FALSE
    /\ UNCHANGED <<max_chunk_size, tpc, op, script, awaiting, oplog, ops>>
    /\ UNCHANGED <<info_response, kpc, csteps, leaked, air, hubIn, lastResp, lastNote,
                   nnotes>>
    /\ UNCHANGED <<programs_uploaded, action_slots>>
    /\ UNCHANGED <<ev3vars, intvars, linkvars, condvars, upvars, libvars>>

\* main calls fast_action(action, wait_response) on a connected session.
CallFastAction ==
    /\ sconnected
    /\ \E a \in ActionNames, wait \in BOOLEAN :
          LET o == [name |-> "fast_action", len |-> ActionProgramLen(a), n |-> 0,
                    cb |-> FALSE]
          IN  /\ fcall' = [action |-> a, wait |-> wait, slots |-> action_slots,
                           uploaded |-> programs_uploaded,
                           pending |-> pending_response,
                           error |-> IF UnknownAction(a) THEN "UnknownAction" ELSE None]
              /\ IF UnknownAction(a)
                 THEN /\ Free("main")
                      /\ ops["main"] + ops["other"] < MaxOps
                      /\ ops' = [ops EXCEPT !["main"] = @ + 1]
                      /\ op' = [op EXCEPT !["main"] = o]
                      /\ script' = [script EXCEPT !["main"] = <<>>]
                      /\ oplog' = [oplog EXCEPT !["main"] = <<>>]
                      /\ tpc' = [tpc EXCEPT !["main"] = "raised"]
                      /\ UNCHANGED <<max_chunk_size, pending_response, futState, futResult,
                                     awaiting, hubq, timedOut, hubProg>>
                      /\ UNCHANGED <<ev3vars, linkvars, condvars, connvars, upvars, libvars>>
                 ELSE Begin("main", o, FastAction(a, wait))
    /\ UNCHANGED <<programs_uploaded, action_slots>>
    /\ UNCHANGED intvars

(***************************************************************************)
(* Part IX.  The collaboration patterns (core/collaboration.py):          *)
(* SignalQueue and the execute methods of ParallelPattern,                 *)
(* ChoreographedPattern and SignalBasedPattern over one batch of           *)
(* (robot, action) tuples.                                                 *)
(***************************************************************************)

\* Actions in one batch.
MaxBatch == 3

\* Signals put into one queue.
MaxSignals == 3

\* wait() calls on one queue.
MaxWaits == 3

\* Robot names a batch refers to.
RobotNames == {"a", "b", "c"}

\* The `robots` dict of a call: all names registered, or "c" missing.
RobotSets == {RobotNames, {"a", "b"}}

\* What the method of an action does when it is called.
ActionKinds == {"ok", "raises"}

\* The batches execute is called with.
Batches == SeqsUpTo([robot : RobotNames, kind : ActionKinds], MaxBatch)

\* gap_ms of a ChoreographedPattern, an even and an odd one.
Gaps == {2, 3}

\* The coroutines that call SignalQueue.wait.
Waiters2 == {"w1", "w2"}

InitPatternPart ==
    /\ robots \in RobotSets
    /\ batch \in Batches
    /\ gap_ms \in Gaps
    /\ ppc = "idle"
    /\ pidx = 0
    /\ ptask = <<>>
    /\ plog = <<>>

InitQueuePart ==
    /\ sq = <<>>
    /\ sqn = 0
    /\ swait = [w \in Waiters2 |-> "idle"]
    /\ sqlog = <<>>
    /\ sqlast = "init"

\* Patterns that are never executed, for the specifications of the other parts.
InitPatternUnused ==
    /\ InitPatternPart
    /\ robots = RobotNames /\ batch = <<>> /\ gap_ms = 2

\* ---- SignalQueue ----

\* A put that drops the signal when one is already queued.
QPutBounded(q, sig) == IF q = <<>> THEN <<sig>> ELSE q

\* put, lines 48-51: put_nowait on the unbounded asyncio.Queue() of line 44.
QPut(q, sig) == Append(q, sig)

\* A get that leaves the signal in the queue.
QGetPeek(q) == q

\* The queue after `self._queue.get()` returned its oldest signal (line 56).
QGet(q) == Tail(q)

\* clear, lines 62-66: get_nowait until the queue is empty.
QClear(q) == <<>>

\* A producer puts the next signal; signals are numbered in the order of the
\* put calls.
SQPut ==
    /\ sqn < MaxSignals
    /\ sqn' = sqn + 1
    /\ sq' = QPut(sq, sqn + 1)
    /\ sqlast' = "put"
    /\ UNCHANGED <<swait, sqlog>>
    /\ UNCHANGED <<robots, batch, gap_ms, ppc, pidx, ptask, plog>>
    /\ UNCHANGED <<hostvars, cobsvars>>

\* w calls wait(timeout): wait_for(self._queue.get(), timeout) is started.
SQWaitCall(w) ==
    /\ swait[w] = "idle"
    /\ Len(sqlog) + Cardinality({x \in Waiters2 : swait[x] = "waiting"}) < MaxWaits
    /\ swait' = [swait EXCEPT ![w] = "waiting"]
    /\ sqlast' = "wait"
    /\ UNCHANGED <<sq, sqn, sqlog>>
    /\ UNCHANGED <<robots, batch, gap_ms, ppc, pidx, ptask, plog>>
    /\ UNCHANGED <<hostvars, cobsvars>>

\* The get of w returns the oldest signal, and wait returns it.
SQWaitReturn(w) ==
    /\ swait[w] = "waiting"
    /\ sq # <<>>
    /\ sqlog' = Append(sqlog, [by |-> w, got |-> Head(sq)])
    /\ sq' = QGet(sq)
    /\ swait' = [swait EXCEPT ![w] = "idle"]
    /\ sqlast' = "wait"
    /\ UNCHANGED sqn
    /\ UNCHANGED <<robots, batch, gap_ms, ppc, pidx, ptask, plog>>
    /\ UNCHANGED <<hostvars, cobsvars>>

\* No signal within the timeout: wait_for raises TimeoutError, which wait
\* catches (lines 57-58); it returns None, written 0.
SQWaitTimeout(w) ==
    /\ swait[w] = "waiting"
    /\ sq = <<>>
    /\ sqlog' = Append(sqlog, [by |-> w, got |-> 0])
    /\ swait' = [swait EXCEPT ![w] = "idle"]
    /\ sqlast' = "wait"
    /\ UNCHANGED <<sq, sqn>>
    /\ UNCHANGED <<robots, batch, gap_ms, ppc, pidx, ptask, plog>>
    /\ UNCHANGED <<hostvars, cobsvars>>

\* clear().
SQClear ==
    /\ sq' = QClear(sq)
    /\ sqlast' = "clear"
    /\ UNCHANGED <<sqn, swait, sqlog>>
    /\ UNCHANGED <<robots, batch, gap_ms, ppc, pidx, ptask, plog>>
    /\ UNCHANGED <<hostvars, cobsvars>>

\* ---- what the three patterns share ----

\* `robot and hasattr(robot, action)`: the action's robot is registered.
Callable(act) == act.robot \in robots

\* A task that ended: it returned, its action raised, or it had nothing to call.
TaskEnded == {"done", "failed", "skipped"}

\* ---- ParallelPattern.execute ----

\* A gather that lets the first exception through (return_exceptions=False).
ReturnExceptionsOff == FALSE

\* asyncio.gather(*tasks, return_exceptions=True), line 118.
ReturnExceptions == TRUE

\* execute is called: one run_action coroutine per action (line 117), all
\* handed to gather, which makes a task of each.
PExecute ==
    /\ ppc = "idle"
    /\ ppc' = "gathering"
    /\ ptask' = [i \in 1..Len(batch) |-> "created"]
    /\ UNCHANGED <<robots, batch, gap_ms, pidx, plog>>
    /\ UNCHANGED <<sq, sqn, swait, sqlog, sqlast>>
    /\ UNCHANGED <<hostvars, cobsvars>>

\* The task of action i starts: run_action calls the method, or returns None
\* when the robot is not there.  The tasks go on when gather has raised.
PStart(i) ==
    /\ ppc \in {"gathering", "raised"}
    /\ i \in DOMAIN ptask
    /\ ptask[i] = "created"
    /\ ptask' = [ptask EXCEPT ![i] = IF Callable(batch[i]) THEN "running" ELSE "skipped"]
    /\ UNCHANGED <<robots, batch, gap_ms, ppc, pidx, plog>>
    /\ UNCHANGED <<sq, sqn, swait, sqlog, sqlast>>
    /\ UNCHANGED <<hostvars, cobsvars>>

\* The method of action i returned or raised.  gather keeps the exception as
\* that task's result, or (return_exceptions=False) raises it in execute.
PFinish(i) ==
    /\ i \in DOMAIN ptask
    /\ ptask[i] = "running"
    /\ IF batch[i].kind = "raises"
       THEN /\ ptask' = [ptask EXCEPT ![i] = "failed"]
            /\ ppc' = IF ~ReturnExceptions /\ ppc = "gathering" THEN "raised" ELSE ppc
       ELSE /\ ptask' = [ptask EXCEPT ![i] = "done"]
            /\ UNCHANGED ppc
    /\ UNCHANGED <<robots, batch, gap_ms, pidx, plog>>
    /\ UNCHANGED <<sq, sqn, swait, sqlog, sqlast>>
    /\ UNCHANGED <<hostvars, cobsvars>>

\* gather returned: every task has ended; execute returns the elapsed time.
PReturn ==
    /\ ppc = "gathering"
    /\ \A i \in DOMAIN ptask : ptask[i] \in TaskEnded
    /\ ppc' = "returned"
    /\ UNCHANGED <<robots, batch, gap_ms, pidx, ptask, plog>>
    /\ UNCHANGED <<sq, sqn, swait, sqlog, sqlast>>
    /\ UNCHANGED <<hostvars, cobsvars>>

\* ---- ChoreographedPattern.execute ----

\* The keys of by_robot in insertion order: the robots of the batch in the
\* order of their first appearance (lines 144-148).
RECURSIVE RobotOrder(_, _)
RobotOrder(acts, seen) ==
    IF acts = <<>> THEN <<>>
    ELSE IF Head(acts).robot \in seen THEN RobotOrder(Tail(acts), seen)
    ELSE <<Head(acts).robot>> \o RobotOrder(Tail(acts), seen \cup {Head(acts).robot})

\* by_robot[r]: the actions of r, as positions in the batch, in input order.
ByRobot(r) ==
    SelectSeq([i \in 1..Len(batch) |-> i], LAMBDA i : batch[i].robot = r)

\* The position of r among the keys of by_robot, from 0.
KeyIndex(r) ==
    CHOOSE k \in 0..Len(batch) :
       k < Len(RobotOrder(batch, {})) /\ RobotOrder(batch, {})[k + 1] = r

\* A stagger of a whole gap per robot.
StartOffsetWholeGap(k, gap) == k * gap

\* The offset of the k-th task, lines 165-168: offset += self.gap_ms // 2.
StartOffset(k, gap) == k * (gap \div 2)

\* execute is called: the actions are grouped and one run_with_offset task per
\* robot is handed to gather.
CExecute ==
    /\ ppc = "idle"
    /\ ppc' = "gathering"
    /\ LET keys == {batch[i].robot : i \in 1..Len(batch)} IN
       /\ ptask' = [r \in keys |-> [at |-> "offset", j |-> 1]]
       /\ plog' = [r \in keys |-> <<>>]
    /\ UNCHANGED <<robots, batch, gap_ms, pidx>>
    /\ UNCHANGED <<sq, sqn, swait, sqlog, sqlast>>
    /\ UNCHANGED <<hostvars, cobsvars>>

\* run_with_offset of r: `await asyncio.sleep(offset_ms / 1000)`, line 152.
CSleepOffset(r) ==
    /\ r \in DOMAIN ptask
    /\ ptask[r].at = "offset"
    /\ plog' = [plog EXCEPT ![r] =
                  Append(@, [ev |-> "sleep", n |-> StartOffset(KeyIndex(r), gap_ms)])]
    /\ ptask' = [ptask EXCEPT ![r].at = "call"]
    /\ UNCHANGED <<robots, batch, gap_ms, ppc, pidx>>
    /\ UNCHANGED <<sq, sqn, swait, sqlog, sqlast>>
    /\ UNCHANGED <<hostvars, cobsvars>>

\* The next action of r: its method is called when the robot is there.
CCall(r) ==
    /\ r \in DOMAIN ptask
    /\ ptask[r].at = "call"
    /\ LET i == ByRobot(r)[ptask[r].j] IN
       IF Callable(batch[i])
       THEN /\ plog' = [plog EXCEPT ![r] = Append(@, [ev |-> "start", n |-> i])]
            /\ ptask' = [ptask EXCEPT ![r].at = "running"]
       ELSE /\ ptask' = [ptask EXCEPT ![r].at = "gap"]
            /\ UNCHANGED plog
    /\ UNCHANGED <<robots, batch, gap_ms, ppc, pidx>>
    /\ UNCHANGED <<sq, sqn, swait, sqlog, sqlast>>
    /\ UNCHANGED <<hostvars, cobsvars>>

\* The method returned, or raised: the exception ends the task of r, and
\* gather (without return_exceptions, line 170) raises it in execute while
\* the tasks of the other robots go on.
CCallEnd(r) ==
    /\ r \in DOMAIN ptask
    /\ ptask[r].at = "running"
    /\ LET i == ByRobot(r)[ptask[r].j] IN
       IF batch[i].kind = "raises"
       THEN /\ plog' = [plog EXCEPT ![r] = Append(@, [ev |-> "raised", n |-> i])]
            /\ ptask' = [ptask EXCEPT ![r].at = "failed"]
            /\ ppc' = IF ppc = "gathering" THEN "raised" ELSE ppc
       ELSE /\ plog' = [plog EXCEPT ![r] = Append(@, [ev |-> "end", n |-> i])]
            /\ ptask' = [ptask EXCEPT ![r].at = "gap"]
            /\ UNCHANGED ppc
    /\ UNCHANGED <<robots, batch, gap_ms, pidx>>
    /\ UNCHANGED <<sq, sqn, swait, sqlog, sqlast>>
    /\ UNCHANGED <<hostvars, cobsvars>>

\* `await asyncio.sleep(self.gap_ms / 1000)`, line 161, then the next action
\* of r, or the end of its task.
CGap(r) ==
    /\ r \in DOMAIN ptask
    /\ ptask[r].at = "gap"
    /\ plog' = [plog EXCEPT ![r] = Append(@, [ev |-> "sleep", n |-> gap_ms])]
    /\ ptask' = [ptask EXCEPT ![r] =
                   IF ptask[r].j < Len(ByRobot(r))
                   THEN [at |-> "call", j |-> ptask[r].j + 1]
                   ELSE [at |-> "done", j |-> ptask[r].j]]
    /\ UNCHANGED <<robots, batch, gap_ms, ppc, pidx>>
    /\ UNCHANGED <<sq, sqn, swait, sqlog, sqlast>>
    /\ UNCHANGED <<hostvars, cobsvars>>

\* gather returned: every task ran to its end.
CReturn ==
    /\ ppc = "gathering"
    /\ \A r \in DOMAIN ptask : ptask[r].at = "done"
    /\ ppc' = "returned"
    /\ UNCHANGED <<robots, batch, gap_ms, pidx, ptask, plog>>
    /\ UNCHANGED <<sq, sqn, swait, sqlog, sqlast>>
    /\ UNCHANGED <<hostvars, cobsvars>>

\* ---- SignalBasedPattern.execute ----

\* A loop that leaves at the first timeout.
AfterWaitTimeoutBreak(i) == Len(batch) + 1

\* The loop variable after the wait of action i timed out: wait returned None,
\* `if signal:` is skipped and the for loop goes on.
AfterWaitTimeout(i) == i + 1

\* execute is called: the for loop of line 203 starts.
SExecute ==
    /\ ppc = "idle"
    /\ ppc' = "call"
    /\ pidx' = 1
    /\ UNCHANGED <<robots, batch, gap_ms, ptask, plog>>
    /\ UNCHANGED <<sq, sqn, swait, sqlog, sqlast>>
    /\ UNCHANGED <<hostvars, cobsvars>>

\* Lines 204-210: the method of the action is called when the robot is there;
\* an exception it raises is not caught and leaves execute.
SCall ==
    /\ ppc = "call"
    /\ pidx <= Len(batch)
    /\ IF ~Callable(batch[pidx])
       THEN /\ plog' = Append(plog, [ev |-> "skipped", n |-> pidx])
            /\ ppc' = "wait"
       ELSE /\ plog' = Append(plog, [ev |-> "sent", n |-> pidx])
            /\ ppc' = IF batch[pidx].kind = "raises" THEN "raised" ELSE "wait"
    /\ UNCHANGED <<robots, batch, gap_ms, pidx, ptask>>
    /\ UNCHANGED <<sq, sqn, swait, sqlog, sqlast>>
    /\ UNCHANGED <<hostvars, cobsvars>>

\* Line 213: self.signal_queue.wait(timeout=5.0) returned a signal.
SWaitSignal ==
    /\ ppc = "wait"
    /\ sq # <<>>
    /\ sq' = QGet(sq)
    /\ plog' = Append(plog, [ev |-> "signal", n |-> Head(sq)])
    /\ pidx' = pidx + 1
    /\ ppc' = "call"
    /\ UNCHANGED <<robots, batch, gap_ms, ptask>>
    /\ UNCHANGED <<sqn, swait, sqlog, sqlast>>
    /\ UNCHANGED <<hostvars, cobsvars>>

\* Line 213: no signal within 5 s, wait returned None.
SWaitTimeout ==
    /\ ppc = "wait"
    /\ sq = <<>>
    /\ plog' = Append(plog, [ev |-> "timeout", n |-> pidx])
    /\ pidx' = AfterWaitTimeout(pidx)
    /\ ppc' = "call"
    /\ UNCHANGED <<robots, batch, gap_ms, ptask>>
    /\ UNCHANGED <<sq, sqn, swait, sqlog, sqlast>>
    /\ UNCHANGED <<hostvars, cobsvars>>

\* The loop is through: execute returns the elapsed time (line 218).
SReturn ==
    /\ ppc = "call"
    /\ pidx > Len(batch)
    /\ ppc' = "returned"
    /\ UNCHANGED <<robots, batch, gap_ms, pidx, ptask, plog>>
    /\ UNCHANGED <<sq, sqn, swait, sqlog, sqlast>>
    /\ UNCHANGED <<hostvars, cobsvars>>

(***************************************************************************)
(* Part X.  The byte stuffing of a frame: cobs.pack in _send_message and   *)
(* cobs.unpack in _on_data (platforms/spike_prime/sp_interface.py).        *)
(***************************************************************************)

\* Bytes of one payload.
MaxPayload == 3

\* Byte values of a payload: the delimiter values 0, 1 and 2, the value an
\* escaped byte is written as, and a value above them.
PayloadBytes == {0, 1, Delimiter, 4, 5}

InitCobsPart ==
    /\ cobs_in \in SeqsUpTo(PayloadBytes, MaxPayload)
    /\ cobs_frame = <<>>
    /\ cobs_out = <<>>
    /\ cobs_pc = "payload"

\* A codec that is never used, for the specifications of the other parts.
InitCobsUnused == InitCobsPart /\ cobs_in = <<>>

\* The payload that was stuffed into the bytes s.
RECURSIVE Unstuff(_)
Unstuff(s) ==
    IF s = <<>> THEN <<>>
    ELSE IF Head(s) = 1 /\ Len(s) >= 2
         THEN <<s[2] - 3>> \o Unstuff(Tail(Tail(s)))
         ELSE <<Head(s)>> \o Unstuff(Tail(s))

\* cobs.unpack(frame): the frame without its delimiter, unstuffed.
Unpack(fr) == Unstuff(SubSeq(fr, 1, Len(fr) - 1))

\* _send_message, lines 305-306: frame = cobs.pack(payload).
CobsPack ==
    /\ cobs_pc = "payload"
    /\ cobs_frame' = Pack(cobs_in)
    /\ cobs_pc' = "packed"
    /\ UNCHANGED <<cobs_in, cobs_out>>
    /\ UNCHANGED <<hostvars, colvars>>

\* _on_data, lines 281-284, for the frame as it was packed: a frame that ends
\* with the delimiter is unpacked.
CobsUnpack ==
    /\ cobs_pc = "packed"
    /\ cobs_frame[Len(cobs_frame)] = Delimiter
    /\ cobs_out' = Unpack(cobs_frame)
    /\ cobs_pc' = "unpacked"
    /\ UNCHANGED <<cobs_in, cobs_frame>>
    /\ UNCHANGED <<hostvars, colvars>>

\* Patterns, queue and codec that are never used.
InitLibUnused == InitPatternUnused /\ InitQueuePart /\ InitCobsUnused

(***************************************************************************)
(* Specifications                                                          *)
(***************************************************************************)

NextEV3 ==
    \/ Connect
    \/ TryTransport
    \/ WaitReady
    \/ TryConnectFailed
    \/ StartDaemonViaSSH
    \/ SleepAndRetry

\* A Spike session whose connect() and disconnect() are not modelled step by
\* step, for the specifications of the other parts.
InitBleUnused ==
    InitConnected /\ InitUploadUnused /\ InitFastPart /\ InitLibUnused

InitEV3 ==
    /\ InitEV3Part /\ InitSpikePart /\ InitInteractivePart /\ InitLinkPart
    /\ InitCondUnused /\ InitBleUnused

SpecEV3 == InitEV3 /\ [][NextEV3]_vars

\* An EV3 link that is never used, for the Spike specifications.
InitEV3Unused ==
    /\ transport_type = "auto"
    /\ auto_start_daemon = FALSE
    /\ serial_available = FALSE
    /\ bt_creatable = FALSE
    /\ transport = "none"
    /\ connected = FALSE
    /\ transportOpen = FALSE
    /\ pc = "idle"
    /\ idx = 1
    /\ attempt = -1
    /\ tried = <<>>
    /\ sleeps = <<>>
    /\ bootstraps = 0
    /\ bootstrapOk = "none"
    /\ attempts = 0
    /\ orphans = 0

InitSpike ==
    /\ InitEV3Unused /\ InitSpikePart /\ InitInteractivePart /\ InitLinkPart
    /\ InitCondUnused /\ InitBleUnused

\* A session used by one task at a time, as the session's contract requires.
NextSpike ==
    \/ CallUploadAndRun
    \/ CallRunSequence
    \/ SendRequest("main")
    \/ SendMessage("main")
    \/ BeginAwait("main")
    \/ Timeout("main")
    \/ HubRespond
    \/ HubDrop

SpecSpike == InitSpike /\ [][NextSpike]_vars

\* The same session with a second task calling stop() at any time.
NextSpikeConc ==
    \/ CallUploadAndRun
    \/ CallStop
    \/ \E c \in Tasks : SendRequest(c)
    \/ \E c \in Tasks : BeginAwait(c)
    \/ \E c \in Tasks : Timeout(c)
    \/ HubRespond
    \/ HubDrop

SpecSpikeConc == InitSpike /\ [][NextSpikeConc]_vars

\* A session on which one task calls run_interactive_sequence.
NextInteractive ==
    \/ CallRunInteractive
    \/ SendRequest("main")
    \/ SendMessage("main")
    \/ BeginAwait("main")
    \/ Timeout("main")
    \/ HubRespond
    \/ HubDrop
    \/ ProgramEmit
    \/ TakeSignal
    \/ CallbackDone
    \/ SignalTimeout
    \/ LoopExit

SpecInteractive == InitSpike /\ [][NextInteractive]_vars

\* The steps of the calling coroutine; the event loop runs a coroutine that can
\* run, and fires a timer that is due.
HostStep ==
    \/ SendRequest("main")
    \/ SendMessage("main")
    \/ BeginAwait("main")
    \/ Timeout("main")
    \/ TakeSignal
    \/ CallbackDone
    \/ SignalTimeout
    \/ LoopExit

SpecInteractiveFair == SpecInteractive /\ WF_vars(HostStep)

\* A Spike session that is never used, for the specifications of Parts IV and V.
InitSpikeUnused == InitSpikePart /\ max_chunk_size = MaxChunk

\* A link without daemon bootstrap (auto_start_daemon=False), so that every
\* connect() call is one _try_connect.
InitEV3Link ==
    /\ InitEV3Part /\ InitSpikeUnused /\ InitInteractivePart /\ InitLinkPart
    /\ InitCondUnused /\ InitBleUnused
    /\ auto_start_daemon = FALSE
    /\ transport_type \in {"auto", "wifi"}

\* One link on which connect, send and disconnect are called one after another,
\* in any order.
NextEV3Link ==
    \/ Connect
    \/ TryTransport
    \/ WaitReady
    \/ TryConnectFailed
    \/ Reconnect
    \/ LinkSendWrite
    \/ LinkReceive
    \/ LinkDaemonReply
    \/ LinkDaemonStops
    \/ LinkDisconnect

SpecEV3Link == InitEV3Link /\ [][NextEV3Link]_vars

InitConductor ==
    /\ InitEV3Unused /\ InitSpikeUnused /\ InitInteractivePart /\ InitLinkPart
    /\ InitCondPart /\ InitBleUnused

\* One program run in which a single caller awaits each Conductor.send.
NextConductor ==
    \/ EnterConductor
    \/ \E d \in Devices : ConnectDevice(d)
    \/ ConnectAllReturn
    \/ InterruptConnecting
    \/ CSend("s1")
    \/ SessWrite("s1")
    \/ SessRead("s1")
    \/ DaemonAnswer
    \/ DaemonStops
    \/ LeaveBody
    \/ DisconnectDevice
    \/ ExitConductor

SpecConductor == InitConductor /\ [][NextConductor]_vars

\* The same run with the sends gathered by Conductor.parallel: every
\* session.send runs on its own thread of the executor.
NextConductorPar ==
    \/ EnterConductor
    \/ \E d \in Devices : ConnectDevice(d)
    \/ ConnectAllReturn
    \/ InterruptConnecting
    \/ \E s \in Senders : CSend(s)
    \/ \E s \in Senders : SessWrite(s)
    \/ \E s \in Senders : SessRead(s)
    \/ DaemonAnswer
    \/ DaemonStops
    \/ LeaveBody
    \/ DisconnectDevice
    \/ ExitConductor

SpecConductorPar == InitConductor /\ [][NextConductorPar]_vars

\* A connected session that uploads one program.
InitUpload ==
    /\ InitEV3Unused /\ InitSpikePart /\ InitInteractivePart /\ InitLinkPart
    /\ InitCondUnused /\ InitConnected /\ InitUploadPart /\ InitFastPart
    /\ InitLibUnused

NextUpload ==
    \/ UStart
    \/ UChunk
    \/ UDone

SpecUpload == InitUpload /\ [][NextUpload]_vars

\* A session that starts out disconnected.
InitSpikeConn ==
    /\ InitEV3Unused /\ InitSpikeUnused /\ InitInteractivePart /\ InitLinkPart
    /\ InitCondUnused /\ InitConnPart /\ InitUploadUnused /\ InitFastPart
    /\ InitLibUnused

\* A SpikeFastInterface that starts out disconnected.
InitFast ==
    /\ InitEV3Unused /\ InitSpikePart /\ InitInteractivePart /\ InitLinkPart
    /\ InitCondUnused /\ InitConnPart /\ InitUploadUnused /\ InitFastPart
    /\ InitLibUnused

\* connect(preload), fast_action and disconnect called one after the other.
NextFast ==
    \/ FConnect
    \/ FDisconnect
    \/ CallFastAction
    \/ SendRequest("main")
    \/ SendMessage("main")
    \/ BeginAwait("main")
    \/ Timeout("main")
    \/ HubRespond
    \/ HubDrop

SpecFast == InitFast /\ [][NextFast]_vars

\* The inherited calls built on upload_and_run (show_display, play_melody,
\* run_motor, clear_display), on a connected session.
CallInherited == sconnected /\ CallUploadAndRun

\* run_sequence on a connected session.
CallSequence == sconnected /\ CallRunSequence

\* run_interactive_sequence on a connected session.
CallInteractive == sconnected /\ CallRunInteractive

\* One connection of a SpikeFastInterface, with or without preload, and every
\* operation of the interface called on it, one after the other.
NextFastAll ==
    \/ FConnect
    \/ CallFastAction
    \/ CallInherited
    \/ CallSequence
    \/ CallInteractive
    \/ SendRequest("main")
    \/ SendMessage("main")
    \/ BeginAwait("main")
    \/ Timeout("main")
    \/ HubRespond
    \/ HubDrop
    \/ ProgramEmit
    \/ TakeSignal
    \/ CallbackDone
    \/ SignalTimeout
    \/ LoopExit

SpecFastAll == InitFast /\ [][NextFastAll]_vars

\* connect(), disconnect() and set_console_callback on one session, the hub
\* answering and printing, the link delivering its notifications.
NextSpikeConn ==
    \/ SConnect
    \/ SConnSubscribe
    \/ SConnInfoSend
    \/ SAwaitDone
    \/ SAwaitTimeout
    \/ SDisconnect
    \/ SDiscClose
    \/ SetConsoleCallback
    \/ HubAnswers
    \/ HubPrints
    \/ OnNotification

SpecSpikeConn == InitSpikeConn /\ [][NextSpikeConn]_vars

\* Parts I to VIII unused, for the specifications of Parts IX and X.
InitHostUnused ==
    /\ InitEV3Unused /\ InitSpikeUnused /\ InitInteractivePart /\ InitLinkPart
    /\ InitCondUnused /\ InitConnected /\ InitUploadUnused /\ InitFastPart

\* One SignalQueue with a producer and two coroutines that wait on it.
InitQueue == InitHostUnused /\ InitLibUnused

NextQueue ==
    \/ SQPut
    \/ \E w \in Waiters2 : SQWaitCall(w)
    \/ \E w \in Waiters2 : SQWaitReturn(w)
    \/ \E w \in Waiters2 : SQWaitTimeout(w)
    \/ SQClear

SpecQueue == InitQueue /\ [][NextQueue]_vars

\* One execute call of a pattern on any batch.
InitPattern ==
    /\ InitHostUnused /\ InitPatternPart /\ InitQueuePart /\ InitCobsUnused
    /\ gap_ms = 2

NextParallel ==
    \/ PExecute
    \/ \E i \in 1..MaxBatch : PStart(i)
    \/ \E i \in 1..MaxBatch : PFinish(i)
    \/ PReturn

SpecParallel == InitPattern /\ [][NextParallel]_vars

\* One execute call of a ChoreographedPattern with any gap.
InitChoreographed ==
    InitHostUnused /\ InitPatternPart /\ InitQueuePart /\ InitCobsUnused

NextChoreographed ==
    \/ CExecute
    \/ \E r \in RobotNames : CSleepOffset(r)
    \/ \E r \in RobotNames : CCall(r)
    \/ \E r \in RobotNames : CCallEnd(r)
    \/ \E r \in RobotNames : CGap(r)
    \/ CReturn

SpecChoreographed == InitChoreographed /\ [][NextChoreographed]_vars

\* One execute call of a SignalBasedPattern, and a producer that puts signals
\* into its queue at any time, before the call too.
NextSignalBased ==
    \/ SExecute
    \/ SCall
    \/ SWaitSignal
    \/ SWaitTimeout
    \/ SReturn
    \/ SQPut

SpecSignalBased == InitPattern /\ [][NextSignalBased]_vars

\* The steps of execute once it was called: the event loop runs the coroutine
\* when it can go on, and fires the timer of wait_for when it is due.
ExecuteStep == SCall \/ SWaitSignal \/ SWaitTimeout \/ SReturn

SpecSignalBasedFair == SpecSignalBased /\ WF_vars(ExecuteStep)

\* cobs.pack and cobs.unpack applied to any payload.
InitCobs == InitHostUnused /\ InitPatternUnused /\ InitQueuePart /\ InitCobsPart

NextCobs ==
    \/ CobsPack
    \/ CobsUnpack

SpecCobs == InitCobs /\ [][NextCobs]_vars

(***************************************************************************)
(* Part I properties                                                       *)
(***************************************************************************)

\* Position of a transport in the documented order USB, WiFi, Bluetooth.
DocRank(t) == CASE t = "usb" -> 1 [] t = "wifi" -> 2 [] t = "bluetooth" -> 3

\* C1: in auto mode _try_connect attempts the transports in the fixed order
\* USB, WiFi, Bluetooth (skipping none that can be created); a transport that
\* connected but gave no READY is disconnected before the next one is tried;
\* nothing is tried after the first READY, and the transport that gave READY
\* is the open transport the session holds when connect returns True.
C1_AutoConnectOrder ==
    transport_type = "auto" =>
      /\ \A i, j \in 1..Len(tried) :
            i < j => DocRank(tried[i].t) < DocRank(tried[j].t)
      /\ \A i \in 1..Len(tried) : \A u \in {"usb", "wifi", "bluetooth"} :
            (DocRank(u) < DocRank(tried[i].t) /\ CreateTransport(u))
               => \E j \in 1..(i - 1) : tried[j].t = u
      /\ \A i \in 1..(Len(tried) - 1) :
            tried[i].result \in {"connect_failed", "no_ready"}
      /\ (pc = "try" /\ tried # <<>>) => ~transportOpen
      /\ transportOpen =>
            /\ tried # <<>>
            /\ tried[Len(tried)].result \in {"connected", "ready"}
            /\ transport = tried[Len(tried)].t
      /\ pc = "returned_true" =>
            /\ tried # <<>>
            /\ tried[Len(tried)].result = "ready"
            /\ transport = tried[Len(tried)].t
            /\ transportOpen
            /\ is_connected

\* C1 witness: USB and WiFi both connect, only WiFi yields READY, and the
\* session ends up on WiFi.
C1_Witness ==
    /\ transport_type = "auto"
    /\ pc = "returned_true"
    /\ tried = << [t |-> "usb", result |-> "no_ready"],
                  [t |-> "wifi", result |-> "ready"] >>
    /\ transport = "wifi"
    /\ transportOpen

\* C2: whenever connect ends in failure, every transport opened during the
\* attempt has been closed, the link retains no transport handle and
\* is_connected is false.
C2_NoPartialStateOnFailure ==
    pc = "returned_false" =>
      /\ ~transportOpen
      /\ transport = "none"
      /\ ~is_connected

UploadEvents(log) ==
    SelectSeq(log, LAMBDA e : e.msg \in {"StartFileUpload", "TransferChunk"})

\* e records that ProgramFlow(start) was written to the hub.
IsFlowStart(e) == e.ev = "sent" /\ e.msg = "ProgramFlow" /\ ~e.stop

\* The number of chunks a program of the given length has to be sent in.
ChunksOf(len) ==
    CHOOSE k \in 0..len :
        /\ k * max_chunk_size >= len
        /\ k > 0 => (k - 1) * max_chunk_size < len

\* The upload events are, in this order and one after the other was answered:
\* StartFileUpload, chunk 1, chunk 2, ...
InUploadOrder(up) ==
    \A i \in 1..Len(up) :
        /\ i % 2 = 1 => up[i].ev \in {"sent", "failed"}
        /\ i % 2 = 0 => up[i].ev \in {"acked", "failed"}
        /\ up[i].msg = IF i <= 2 THEN "StartFileUpload" ELSE "TransferChunk"
        /\ up[i].k = IF i <= 2 THEN 0 ELSE (i - 1) \div 2
        /\ up[i].ev = "failed" => i = Len(up)

\* C4: in every upload, ProgramFlow(start) for a slot is sent only after
\* StartFileUpload and every TransferChunk of that program were each
\* acknowledged by the hub, in that order and one outstanding request at a
\* time; if StartFileUpload or a TransferChunk fails or times out, the
\* operation reports the failure and sends no ProgramFlow(start).
C4_StartOnlyAfterAcknowledgedUpload ==
    LET log == oplog["main"]
        up == UploadEvents(log)
    IN  /\ InUploadOrder(up)
        /\ \A j \in 1..Len(log) :
              IsFlowStart(log[j]) =>
                 LET before == UploadEvents(SubSeq(log, 1, j - 1)) IN
                 /\ Len(before) = 2 * (1 + ChunksOf(op["main"].len))
                 /\ \A i \in 1..Len(before) :
                       /\ i % 2 = 0 => (before[i].ev = "acked" /\ before[i].own)
                       /\ before[i].slot = log[j].slot
        /\ \A i \in 1..Len(up) :
              up[i].ev = "failed" =>
                 /\ tpc["main"] \in {"failed", "raised"}
                 /\ \A j \in 1..Len(log) : ~IsFlowStart(log[j])

\* Number of entries of a log that satisfy Test.
CountEvents(log, Test(_)) == Cardinality({j \in 1..Len(log) : Test(log[j])})

IsUploadStart(e) == e.ev = "sent" /\ e.msg = "StartFileUpload"

IsChunkSent(e) == e.ev = "sent" /\ e.msg = "TransferChunk"

\* C5: run_sequence with N actions, whatever N and whatever the action types,
\* performs exactly one upload cycle to the scratch slot and sends exactly one
\* ProgramFlow(start).
C5_OneUploadOneStart ==
    op["main"].name = "run_sequence" =>
       LET log == oplog["main"] IN
       /\ CountEvents(log, IsFlowStart) <= 1
       /\ CountEvents(log, IsUploadStart) <= 1
       /\ \A j \in 1..Len(log) : log[j].slot = SequenceSlot
       /\ tpc["main"] = "returned" =>
             /\ CountEvents(log, IsFlowStart) = 1
             /\ CountEvents(log, IsUploadStart) = 1
             /\ CountEvents(log, IsChunkSent) = ChunksOf(op["main"].len)
             /\ IsFlowStart(log[Len(log)])

\* C5 witness: a run_sequence with the most actions has returned.
C5_Witness ==
    /\ op["main"].name = "run_sequence"
    /\ op["main"].n = MaxActions
    /\ tpc["main"] = "returned"
    /\ CountEvents(oplog["main"], IsFlowStart) = 1

\* C6: a request issued while another request of the session is pending does
\* not overwrite the pending-response slot: as long as a request waits for its
\* response, the slot holds that request's registration.
C6_PendingSlotNotOverwritten ==
    \A c \in Tasks :
        (tpc[c] \in {"sending", "awaiting"} /\ futState[c] = "pending")
           => pending_response.fut = c

\* C7: after a request timed out, the pending-response slot is cleared: no
\* request type and no wait handle remain registered.
C7_SlotClearedAfterTimeout ==
    timedOut => pending_response = [id |-> None, fut |-> None]

(***************************************************************************)
(* Part III properties                                                     *)
(***************************************************************************)

Interactive == op["main"].name = "run_interactive_sequence"

\* The sequence 1, 2, .., n.
UpTo(n) == [j \in 1..n |-> j]

\* The markers DONE:0 .. DONE:n-1 of the program the running call started.
OwnMarkers(n) == [j \in 1..n |-> [idx |-> j - 1, gen |-> ops["main"]]]

\* C8: when the N markers DONE:0 .. DONE:N-1 arrive once each in order,
\* on_action_done is invoked exactly N times with 1, 2, .., N in that order, and
\* each invocation has completed before the next signal is consumed.
C8_CallbacksInOrder ==
    (Interactive /\ op["main"].cb) =>
       /\ cbLog = UpTo(Len(cbLog))
       /\ Len(cbLog) = completed
       /\ cbDone <= completed /\ completed <= cbDone + 1
       /\ tpc["main"] = "listening" => completed = cbDone
       /\ tpc["main"] = "in_callback" => completed = cbDone + 1
       /\ ( /\ tpc["main"] = "returned"
            /\ received = OwnMarkers(op["main"].n)
            /\ cbDone = Len(cbLog) ) =>
             cbLog = UpTo(op["main"].n)

\* C8 witness: both markers of a two-action sequence arrived and the call
\* returned after two callbacks.
C8_Witness ==
    /\ Interactive /\ op["main"].cb
    /\ op["main"].n = MaxActions
    /\ tpc["main"] = "returned"
    /\ received = OwnMarkers(MaxActions)
    /\ cbLog = UpTo(MaxActions)
    /\ cbDone = MaxActions

\* C9, the state part: when a signal does not arrive in time the call has
\* returned at that timeout, having invoked on_action_done once for each signal
\* received before it and no more.
GivesUpAtTimeout ==
    (Interactive /\ sigTimedOut) =>
       /\ tpc["main"] = "returned"
       /\ completed = Len(received)
       /\ completed < op["main"].n
       /\ op["main"].cb => (cbLog = UpTo(Len(received)) /\ cbDone = Len(received))
       /\ ~op["main"].cb => cbLog = <<>>

\* C9: if a completion signal never arrives, run_interactive_sequence still
\* returns: it gives up after the signal timeout, has invoked on_action_done
\* only for the signals received before the missing one, and never stays in
\* its wait loop.
C9_ReturnsWithoutSignal ==
    /\ []GivesUpAtTimeout
    /\ (tpc["main"] \in {"listening", "in_callback"})
          ~> (tpc["main"] \in {"returned", "raised"})

\* C9 witness: of two markers only the first arrived; the call returned after
\* one callback.
C9_Witness ==
    /\ Interactive /\ op["main"].cb
    /\ op["main"].n = MaxActions
    /\ sigTimedOut
    /\ tpc["main"] = "returned"
    /\ received = OwnMarkers(1)
    /\ cbLog = <<1>>

\* C10: on_action_done(n) is invoked only after the marker DONE:n-1 of the
\* program just started has been received; a duplicated, out-of-order or stale
\* marker is not counted as the completion of another action.
C10_CallbackOnlyForOwnMarker ==
    Interactive =>
       \A j \in 1..Len(cbLog) :
          \E i \in 1..Len(received) :
             received[i] = [idx |-> cbLog[j] - 1, gen |-> ops["main"]]

(***************************************************************************)
(* Part V properties                                                       *)
(***************************************************************************)

\* C11: once connect_all has returned, it returned true exactly when the
\* connection of every registered device was established (connect_all never
\* raises); a device whose connection attempt failed, by raising or by the
\* value the platform connect returned, has connected = false, and a device
\* that did connect has connected = true.
C11_ConnectAllReportsFailures ==
    cpc = "body" =>
      /\ (connectResult = "true") = (\A d \in Devices : realUp[d])
      /\ \A d \in Devices : devices[d].connected = realUp[d]

\* C12: every Conductor.send returns a result.  For an unregistered or
\* not-connected device the result is (false, 0) and no platform send was
\* started; a failed send returns (false, 0) and leaves every recorded latency
\* as it was; a result of true comes only from a connected device and then the
\* device's recorded latency is the one returned.
C12_SendNeverRaises ==
    [][\A s \in Senders :
         sres'[s] # sres[s] =>
           LET r == sres'[s] IN
           /\ r.ok => /\ r.device \in Devices
                      /\ devices[r.device].connected
                      /\ r.latency > 0
                      /\ devices'[r.device].latency_ms = r.latency
           /\ ~r.ok => r.latency = 0 /\ devices' = devices
           /\ (r.device \notin Devices \/ ~devices[r.device].connected) =>
                ~r.ok /\ contacts' = contacts /\ sessIn' = sessIn]_vars

\* A platform send failed on a device that had a latency recorded before.
C12_Witness ==
    \E s \in Senders :
      /\ sres[s].raised # "none"
      /\ ~sres[s].ok
      /\ sres[s].device \in Devices
      /\ devices[sres[s].device].latency_ms > 0

\* C13: disconnect_all calls _disconnect_device for every device that is marked
\* connected when the loop reaches it; a device whose disconnect raised does
\* not end the loop, and the error does not become the exception the block is
\* left with; devices whose disconnect did not raise are no longer connected.
C13_DisconnectAllBestEffort ==
    (cpc \in {"disconnecting", "exited"} /\ discRuns > 0) =>
      /\ \A i \in 1..Len(DeviceOrder) :
           i < dcur =>
             LET d == DeviceOrder[i] IN
             /\ d \notin discAttempted => ~devices[d].connected
             /\ d \in discAttempted \ discRaised => ~devices[d].connected
      /\ cpc = "exited" => dcur = Len(DeviceOrder) + 1 /\ propagated = exc

\* disconnect_all returned after the first device's disconnect raised and the
\* device after it was disconnected.
C13_Witness ==
    /\ cpc = "exited"
    /\ "ev3" \in discRaised
    /\ "spike" \in discAttempted
    /\ ~devices["spike"].connected

\* C14: whenever the program has left `async with Conductor` after connecting
\* had begun, disconnect_all has run, and the block was left with the
\* cancellation or exception that ended it.
C14_DisconnectAllBeforeExit ==
    cpc = "exited" => discRuns > 0 /\ propagated = exc

\* C15: the session.send that reads a QUIT line, or an empty reply to a command
\* other than quit/exit, clears _running and raises; from then on the session
\* stays not running, nothing more is written to the daemon, and every send
\* that reaches the session raises "Daemon not running".
C15_QuitIsTerminal ==
    [][/\ (terminal' /\ ~terminal) =>
            /\ ~running'
            /\ \E s \in Senders : /\ sres'[s] # sres[s]
                                  /\ ~sres'[s].ok
                                  /\ sres'[s].raised \in {"quit", "empty"}
       /\ terminal =>
            /\ ~running'
            /\ sessLateWrites' = 0
            /\ \A s \in Senders :
                 (sres'[s] # sres[s] /\ sres'[s].device = "ev3"
                    /\ devices["ev3"].connected)
                   => sres'[s].raised = "not_running"]_vars

\* After the session ended on such a reply, a later send raised at once.
C15_Witness ==
    /\ terminal
    /\ ~running
    /\ \E s \in Senders : sres[s].raised = "not_running"

\* C18: every Conductor.send to the EV3 that returned a reply line returned the
\* daemon's reply to its own command, also when two sends run concurrently.
C18_EachCallGetsOwnReply ==
    \A s \in Senders :
      (sres[s].ok /\ sres[s].device = "ev3" /\ sres[s].reply # 0)
        => sres[s].reply = sres[s].n

(***************************************************************************)
(* Part IV properties                                                      *)
(***************************************************************************)

\* C16: after a send on the EV3 link has received a QUIT line from the daemon,
\* is_connected is false and no later send is written to the link.
C16_QuitPropagates ==
    quitSeen => ~is_connected /\ lateWrites = 0

\* C17: the reply line an acknowledged send returns is the daemon's reply to
\* the command that send wrote.
C17_ReplyMatchesCommand ==
    (lastSend.outcome = "returned" /\ lastSend.kind = "OK")
      => lastSend.reply = lastSend.n

\* C19: counting the transport the link holds and the transports it opened and
\* no longer refers to, at most one transport is open at any time.
C19_AtMostOneOpenTransport ==
    (IF transportOpen THEN 1 ELSE 0) + orphans <= 1

ConnectReturns == lastCall' # lastCall /\ lastCall'.name = "connect"

\* C21: a session becomes connected only through the sequence link opened,
\* notifications subscribed, Info request sent, Info response received;
\* whenever it is connected the Info response is known; a connect() in which
\* one of these steps fails returns False and leaves the session not connected.
C21_ConnectedOnlyAfterHandshake ==
    [][ /\ sconnected' => info_response' # None
        /\ (~sconnected /\ sconnected') =>
              /\ csteps' = Handshake
              /\ ConnectReturns /\ lastCall'.result
        /\ ConnectReturns =>
              /\ kpc' = "idle"
              /\ lastCall'.result = sconnected'
              /\ lastCall'.result = (csteps' = Handshake) ]_vars

\* C21 witness: the second call on the session is a connect() that went
\* through, the first one having left the session not connected.
C21_Witness ==
    /\ sconnected
    /\ lastCall.name = "connect" /\ lastCall.result /\ lastCall.n = 2
    /\ info_response = "InfoResponse"

\* The connect() called last returned False, and only disconnect() was called
\* since.
LastConnectFailed ==
    /\ kpc = "idle"
    /\ lastCall.name # "none"
    /\ csteps = <<>> \/ csteps[Len(csteps)] # "info_received"

\* C22: when connect() fails after the link was opened, the link and the
\* subscription are torn down: no open link remains for a session whose connect
\* returned False, neither right after connect nor after a following disconnect.
C22_FailedConnectReleasesLink ==
    LastConnectFailed => (client # "open" /\ ~notifying)

\* C25: a response frame that arrives split over several notifications is
\* reassembled, and a response frame that arrived completely resolves the
\* pending request exactly when its type is the registered one.
C25_SplitResponseResolves ==
    lastResp.match <=> lastResp.resolved

\* C26: disconnect() on a connected session requests ProgramFlow(stop) first,
\* unsubscribes and closes the link whatever fails on the way, and leaves the
\* session not connected.
C26_DisconnectClosesLink ==
    (kpc = "idle" /\ lastCall.name = "disconnect" /\ lastCall.was) =>
       /\ ~sconnected
       /\ {"stop", "close"} \subseteq lastCall.tried

\* C27: every console frame that arrived is delivered to exactly the callback
\* registered at that time, and to none when none is registered.
C27_ConsoleToRegisteredCallback ==
    lastNote.to = lastNote.registered

(***************************************************************************)
(* Part VII properties                                                     *)
(***************************************************************************)

\* The payloads of the first k TransferChunk messages, concatenated.
Transferred(k) == Concat([j \in 1..k |-> chunks[j].payload])

\* C23: once the Info response is known, every write to the characteristic is
\* at most max_packet_size bytes, the packets written for one message are
\* consecutive slices that concatenate to the encoded frame, and every
\* TransferChunk carries at most max_chunk_size payload bytes.
C23_WritesRespectLimits ==
    /\ \A k \in 1..Len(writes) :
          Len(writes[k]) >= 1 /\ Len(writes[k]) <= max_packet_size
    /\ Concat(writes) = frame
    /\ upc # "idle" => frame # <<>> /\ frame[Len(frame)] = Delimiter
    /\ \A k \in 1..Len(chunks) : Len(chunks[k].payload) <= max_chunk_size

\* C23 witness: a frame went out in three packets or more, the last one
\* shorter than the others, carrying a chunk of the full chunk size.
C23_Witness ==
    /\ Len(writes) >= 3
    /\ Len(writes[Len(writes)]) < max_packet_size
    /\ chunks # <<>>
    /\ Len(chunks[Len(chunks)].payload) = max_chunk_size

\* C24: the chunks sent are consecutive slices that cover the program once and
\* in order, the running_crc of the k-th TransferChunk is the CRC of chunks
\* 1..k together, and the one of the last chunk is the program CRC that
\* StartFileUpload announced.
C24_RunningCrcCoversProgram ==
    /\ \A k \in 1..Len(chunks) :
          /\ chunks[k].payload # <<>>
          /\ chunks[k].running_crc = Crc(Transferred(k), 0)
    /\ Transferred(Len(chunks)) = Slice(program, 0, upi)
    /\ upc = "done" =>
          /\ Transferred(Len(chunks)) = program
          /\ chunks # <<>> => chunks[Len(chunks)].running_crc = program_crc

\* C24 witness: an upload in three chunks, the last one shorter, is through.
C24_Witness ==
    /\ upc = "done"
    /\ Len(chunks) = 3
    /\ Len(chunks[3].payload) < max_chunk_size
    /\ chunks[3].running_crc = program_crc

(***************************************************************************)
(* Part VIII properties                                                    *)
(***************************************************************************)

\* A fast_action call is in progress or was the last thing done.
FastCalled == fcall.action # None

\* The log of that call.
FastLog == oplog["main"]

\* C28: fast_action on a name that is in the slot cache sends exactly one
\* ProgramFlow(start), for the cached slot, and no ClearSlot, StartFileUpload
\* or TransferChunk; the slot cache is unchanged, and with wait_response =
\* False nothing is registered in the pending-response slot.
C28_CachedNameStartsDirectly ==
    (FastCalled /\ fcall.action \in fcall.slots) =>
       /\ \A j \in 1..Len(FastLog) :
             /\ FastLog[j].msg = "ProgramFlow" /\ ~FastLog[j].stop
             /\ FastLog[j].slot = ActionSlot(fcall.action)
       /\ CountEvents(FastLog, IsFlowStart) <= 1
       /\ tpc["main"] = "returned" => CountEvents(FastLog, IsFlowStart) = 1
       /\ action_slots = fcall.slots
       /\ ~fcall.wait => pending_response = fcall.pending

\* C29: fast_action on a predefined name that is not in the slot cache falls
\* back to one upload of that action's program to the scratch slot followed by
\* one start, with or without preload: it raises no unknown-action error.
C29_UncachedPredefinedFallsBack ==
    (FastCalled /\ fcall.action \in PredefinedActions
                /\ fcall.action \notin fcall.slots) =>
       /\ fcall.error = None
       /\ \A j \in 1..Len(FastLog) : FastLog[j].slot = SequenceSlot
       /\ tpc["main"] = "returned" =>
             /\ CountEvents(FastLog, IsUploadStart) = 1
             /\ CountEvents(FastLog, IsChunkSent) = ChunksOf(op["main"].len)
             /\ CountEvents(FastLog, IsFlowStart) = 1
             /\ IsFlowStart(FastLog[Len(FastLog)])

\* The call failed with the unknown-action error before any message was sent,
\* the slot cache and the pending-response slot being what they were.
RejectedUnsent ==
    /\ fcall.error = "UnknownAction"
    /\ tpc["main"] = "raised"
    /\ FastLog = <<>>
    /\ action_slots = fcall.slots
    /\ pending_response = fcall.pending

\* C30 as stated: fast_action with a name that is neither a cached slot nor a
\* predefined action fails with the unknown-action error before any message is
\* sent, the slot cache and the pending-response state unchanged.
C30_UnknownNameRejected ==
    (FastCalled /\ fcall.action \notin fcall.slots
                /\ fcall.action \notin PredefinedActions) => RejectedUnsent

\* C30 amended: fast_action with a name that is neither a cached slot, nor a
\* predefined action, nor a name that starts with "beep_" fails with the
\* unknown-action error before any message is sent, the slot cache and the
\* pending-response state unchanged.
C30_UnknownNonBeepRejected ==
    (FastCalled /\ fcall.action \notin fcall.slots
                /\ fcall.action \notin PredefinedActions
                /\ ~StartsWithBeep(fcall.action)) => RejectedUnsent

\* C30 witness: on a session connected without preload, a name nothing is
\* known about was rejected.
C30_Witness ==
    /\ FastCalled /\ fcall.action = "wave" /\ ~fcall.uploaded
    /\ RejectedUnsent

(***************************************************************************)
(* Properties of Part II: a response and the request it is returned to     *)
(***************************************************************************)

\* The responses that _send_request returned to the calls of c.
Returned(c) == SelectSeq(oplog[c], LAMBDA e : e.ev = "acked")

\* C38: a response that arrives after its own request timed out is never
\* delivered as the result of a later request: every _send_request that
\* completes returns the hub's response to the message that this call sent.
C38_ResponseAnswersOwnRequest ==
    \A c \in Tasks : \A j \in 1..Len(Returned(c)) : Returned(c)[j].own

(***************************************************************************)
(* Properties of Part III: the console callback after the call             *)
(***************************************************************************)

\* run_interactive_sequence is over: it returned, or an exception left it.
InteractiveFinished ==
    /\ op["main"].name = "run_interactive_sequence"
    /\ tpc["main"] \in {"returned", "raised"}

\* C39: whenever run_interactive_sequence finishes - normally, after a signal
\* timeout, or by an exception raised by the upload or by on_action_done -
\* the console callback it registered is no longer registered on the
\* session.
C39_CallbackClearedWhenFinished ==
    InteractiveFinished => console_callback = None

(***************************************************************************)
(* Properties of Part V: the devices after disconnect_all                  *)
(***************************************************************************)

\* disconnect_all has returned.
DisconnectAllReturned == cpc = "exited" /\ discRuns > 0

\* C37: after Conductor.disconnect_all returns, every registered device has
\* connected = false, including a device whose disconnect raised an error.
C37_NoDeviceConnectedAfterDisconnectAll ==
    DisconnectAllReturned => \A d \in Devices : ~devices[d].connected

\* C40: a device that connect_all leaves with connected = false holds no open
\* connection after disconnect_all: a link opened during the failed attempt
\* was closed by the attempt itself or by disconnect_all.
C40_FailedDeviceHoldsNoLink ==
    DisconnectAllReturned =>
      \A d \in Devices : connResult[d] = "false" => ~opened[d]

(***************************************************************************)
(* Properties of Part VIII: the slot cache and the other operations        *)
(***************************************************************************)

\* The slots the name-to-slot cache points to.
CachedSlots == {ActionSlot(a) : a \in action_slots}

\* e records that a message was written that clears a slot or starts an upload
\* into it.
OverwritesSlot(e) == e.ev = "sent" /\ e.msg \in {"ClearSlot", "StartFileUpload"}

\* C36: slot-cache coherence: each name in the name-to-slot cache maps to a
\* slot that still holds the program uploaded for that name: no operation
\* other than the preload (run_sequence, run_interactive_sequence, the
\* single-action fallback, the inherited upload_and_run-based calls on the
\* session's default slot) clears or uploads into a cached slot.
C36_CachedSlotsKeepTheirPrograms ==
    [][\A j \in 1..Len(oplog'["main"]) :
          (j > Len(oplog["main"]) /\ OverwritesSlot(oplog'["main"][j]))
            => oplog'["main"][j].slot \notin CachedSlots]_vars

(***************************************************************************)
(* Properties of Part IX: the collaboration patterns                       *)
(***************************************************************************)

\* C31: ParallelPattern.execute starts every (robot, action) of the batch; an
\* exception raised by one action neither cancels the other actions nor keeps
\* them from completing, and it is not raised out of execute; execute returns
\* only after every action has finished.
C31_ParallelRunsAllAndSwallowsErrors ==
    /\ ppc # "raised"
    /\ ppc # "idle" => DOMAIN ptask = 1..Len(batch)
    /\ ppc = "returned" =>
         \A i \in 1..Len(batch) :
            /\ ptask[i] \in TaskEnded
            /\ Callable(batch[i]) =>
                 ptask[i] = IF batch[i].kind = "raises" THEN "failed" ELSE "done"

\* execute returned after the first action raised and two later ones completed.
C31_Witness ==
    /\ ppc = "returned"
    /\ Len(batch) = MaxBatch
    /\ ptask[1] = "failed"
    /\ \A i \in 2..Len(batch) : ptask[i] = "done"

\* The log of a SignalBasedPattern.execute is: action 1, its wait, action 2,
\* its wait, ...: each action is followed by one signal taken or one timeout
\* before the next action.
InListOrder ==
    \A k \in 1..Len(plog) :
       /\ k % 2 = 1 => (plog[k].ev \in {"sent", "skipped"} /\ plog[k].n = (k + 1) \div 2)
       /\ k % 2 = 0 => plog[k].ev \in {"signal", "timeout"}

\* Every action of the batch whose robot is registered was sent.
AllSent ==
    \A i \in 1..Len(batch) :
       Callable(batch[i]) =>
          \E k \in 1..Len(plog) : plog[k] = [ev |-> "sent", n |-> i]

\* execute was left by the exception of the action it sent last.
LeftByAction ==
    /\ plog # <<>>
    /\ plog[Len(plog)].ev = "sent"
    /\ batch[plog[Len(plog)].n].kind = "raises"

RobotsBefore(r) ==
    LET first == CHOOSE k \in 1..Len(batch) :
                    /\ batch[k].robot = r
                    /\ \A m \in 1..(k - 1) : batch[m].robot # r
    IN  Cardinality({batch[m].robot : m \in 1..(first - 1)})

\* What the task of a robot does for its actions at the positions ps of the
\* batch: each is started and ended, with a gap sleep after it.
RECURSIVE ActionSchedule(_)
ActionSchedule(ps) ==
    IF ps = <<>> THEN <<>>
    ELSE (IF Callable(batch[Head(ps)])
          THEN <<[ev |-> "start", n |-> Head(ps)], [ev |-> "end", n |-> Head(ps)]>>
          ELSE <<>>)
         \o <<[ev |-> "sleep", n |-> gap_ms]>> \o ActionSchedule(Tail(ps))

\* The schedule of robot r: the start delay, then its actions in input order.
Schedule(r) ==
    <<[ev |-> "sleep", n |-> RobotsBefore(r) * (gap_ms \div 2)]>>
    \o ActionSchedule(SelectSeq([i \in 1..Len(batch) |-> i],
                                LAMBDA i : batch[i].robot = r))

\* log is a beginning of the schedule sched; its last entry may be an action
\* that raised instead of ending.
Follows(log, sched) ==
    /\ Len(log) <= Len(sched)
    /\ \A k \in 1..Len(log) :
          \/ log[k] = sched[k]
          \/ /\ k = Len(log)
             /\ log[k].ev = "raised"
             /\ sched[k] = [ev |-> "end", n |-> log[k].n]

Got == SelectSeq(sqlog, LAMBDA e : e.got # 0)

\* C34: every signal put into a SignalQueue is returned by at most one wait
\* call, signals are returned in the order they were put, put never blocks or
\* raises (the signal is in the queue when put returns), wait returns None
\* when no signal arrives within the timeout, and after clear the queue holds
\* no signal.
C34_QueueDeliversOnceInOrder ==
    /\ \A k \in 1..Len(Got) :
          /\ Got[k].got \in 1..sqn
          /\ k > 1 => Got[k - 1].got < Got[k].got
    /\ \A k \in 1..Len(sq) :
          /\ sq[k] \in 1..sqn
          /\ k > 1 => sq[k - 1] < sq[k]
          /\ \A j \in 1..Len(Got) : Got[j].got < sq[k]
    /\ sqlast = "put" => (sq # <<>> /\ sq[Len(sq)] = sqn)
    /\ sqlast = "clear" => sq = <<>>

\* Two waiters got the first two signals in order, a third wait timed out, and
\* a signal put after that was cleared.
C34_Witness ==
    /\ Len(sqlog) = MaxWaits
    /\ sqlog[1].got = 1 /\ sqlog[2].got = 2 /\ sqlog[1].by # sqlog[2].by
    /\ sqlog[3].got = 0
    /\ sqn = 3
    /\ sqlast = "clear"

(***************************************************************************)
(* Properties of Part X: byte stuffing                                     *)
(***************************************************************************)

\* The delimiter is the last byte of fr and no other.
DelimiterOnlyLast(fr) ==
    /\ fr # <<>>
    /\ \A k \in 1..Len(fr) : (fr[k] = Delimiter) = (k = Len(fr))

\* C35: byte-stuffing round trip: for every payload, payloads that contain the
\* delimiter byte values included, unpacking the packed frame yields the
\* payload, and a packed frame contains the terminal delimiter only as its
\* last byte.
C35_StuffingRoundTrip ==
    /\ cobs_pc # "payload" => DelimiterOnlyLast(cobs_frame)
    /\ cobs_pc = "unpacked" => cobs_out = cobs_in

\* A payload of the three delimiter values went through pack and unpack.
C35_Witness ==
    /\ cobs_pc = "unpacked"
    /\ cobs_in = <<Delimiter, 0, 1>>
    /\ Len(cobs_frame) = 7

=============================================================================
